---- MODULE Spec2Model ----
(***************************************************************************)
(* A model of bunnystream-go: the query parameter builder, the CDN token   *)
(* signer, the Config and NewClient, the API client core and the playback  *)
(* and signed URL generators.                                              *)
(*                                                                         *)
(* Go strings are modelled as sequences of one-character strings, so that  *)
(* concatenation, trimming, splitting, escaping and sorting are computed   *)
(* character by character as the library code computes them.               *)
(***************************************************************************)
EXTENDS Integers, Sequences, FiniteSets, TLC

VARIABLES
    \* ---- query builder (query_builder.go) ----
    reqRawQuery,   \* req.URL.RawQuery of the one request the builders target
    builder,       \* builder[b]: [built, values] -- queryBuilder.values
    hist,          \* history per builder: base, calls, applyOut
    lastOp,        \* the operation that produced the current state
    \* ---- signer (signCDNToken) ----
    now,           \* the wall clock (time.Now), in seconds
    sig,           \* sig[i]: the i-th recorded signCDNToken call and its result
    enc,           \* a digest and the token text signCDNToken makes of it
    \* ---- client core ----
    transportCalls,\* number of times httpClient.Do was invoked so far
    call,          \* the last call of a client operation and its result
    \* ---- Config and NewClient ----
    config,        \* the Config the callers of NewClient share
    mu,            \* Config.mu: "free" or the caller that holds it
    caller,        \* caller[g]: where g is in NewClient, and what it got
    written,       \* written[f]: how often Config.init assigned field f
    client         \* the Client the operations are called on

qvars == <<reqRawQuery, builder, hist>>
svars == <<now, sig, enc>>
cvars == <<transportCalls, call>>
kvars == <<config, mu, caller, written, client>>
vars  == <<reqRawQuery, builder, hist, lastOp, now, sig, enc, transportCalls, call,
           config, mu, caller, written, client>>

(***************************************************************************)
(* Strings                                                                 *)
(***************************************************************************)

\* The characters the model uses, in ascending byte order.
ByteOrder ==
    << "\t", " ", "#", "%", "&", "+", ",", "-", ".", "/",
       "0", "1", "2", "3", "4", "5", "6", "7", "8", "9",
       ":", ";", "=", "?",
       "A", "B", "C", "D", "E", "F", "G", "H", "I", "J", "K", "L", "M",
       "N", "O", "P", "Q", "R", "S", "T", "U", "V", "W", "X", "Y", "Z", "_",
       "a", "b", "c", "d", "e", "f", "g", "h", "i", "j", "k", "l", "m",
       "n", "o", "p", "q", "r", "s", "t", "u", "v", "w", "x", "y", "z" >>

OrdTable ==
    [c \in {ByteOrder[i] : i \in 1..Len(ByteOrder)} |->
        CHOOSE i \in 1..Len(ByteOrder) : ByteOrder[i] = c]

Ord(c) == OrdTable[c]

\* unicode.IsSpace restricted to the characters of the model.
WhiteSpace == {" ", "\t"}

RECURSIVE TrimLeftSpace(_)
TrimLeftSpace(s) ==
    IF s # <<>> /\ Head(s) \in WhiteSpace THEN TrimLeftSpace(Tail(s)) ELSE s

RECURSIVE TrimRightSpace(_)
TrimRightSpace(s) ==
    IF s # <<>> /\ s[Len(s)] \in WhiteSpace
    THEN TrimRightSpace(SubSeq(s, 1, Len(s) - 1))
    ELSE s

\* strings.TrimSpace
TrimSpace(s) == TrimRightSpace(TrimLeftSpace(s))

\* strings.Join
RECURSIVE Join(_, _)
Join(elems, sep) ==
    IF elems = <<>> THEN <<>>
    ELSE IF Len(elems) = 1 THEN elems[1]
    ELSE elems[1] \o sep \o Join(Tail(elems), sep)

\* Byte-wise lexicographic order of Go strings (a < b).
RECURSIVE StrLess(_, _)
StrLess(a, b) ==
    IF b = <<>> THEN FALSE
    ELSE IF a = <<>> THEN TRUE
    ELSE IF Head(a) = Head(b) THEN StrLess(Tail(a), Tail(b))
    ELSE Ord(Head(a)) < Ord(Head(b))

\* sort.Strings applied to a set of distinct strings.
RECURSIVE SortStrings(_)
SortStrings(S) ==
    IF S = {} THEN <<>>
    ELSE LET m == CHOOSE x \in S : \A y \in S \ {x} : StrLess(x, y)
         IN  <<m>> \o SortStrings(S \ {m})

\* strconv.FormatBool
FormatBool(b) ==
    IF b THEN <<"t", "r", "u", "e">> ELSE <<"f", "a", "l", "s", "e">>

\* Index of the first occurrence of character c in s, 0 if there is none.
IndexOf(s, c) ==
    IF \E i \in DOMAIN s : s[i] = c
    THEN CHOOSE i \in DOMAIN s : s[i] = c /\ \A j \in 1..(i - 1) : s[j] # c
    ELSE 0

\* strings.Cut(s, c): the text before and after the first c.
CutBefore(s, c) ==
    LET i == IndexOf(s, c) IN IF i = 0 THEN s ELSE SubSeq(s, 1, i - 1)

CutAfter(s, c) ==
    LET i == IndexOf(s, c) IN IF i = 0 THEN <<>> ELSE SubSeq(s, i + 1, Len(s))

(***************************************************************************)
(* net/url: escaping, url.Values, ParseQuery and Encode                    *)
(***************************************************************************)

HexDigits ==
    {"0", "1", "2", "3", "4", "5", "6", "7", "8", "9",
     "a", "b", "c", "d", "e", "f", "A", "B", "C", "D", "E", "F"}

\* The characters url.QueryEscape writes as %XX, with their two hex digits.
\* Every other character of ByteOrder except the space is unreserved.
EscapeTable ==
    ("\t" :> <<"0", "9">>) @@ ("%" :> <<"2", "5">>) @@ ("&" :> <<"2", "6">>) @@
    ("#" :> <<"2", "3">>) @@ ("+" :> <<"2", "B">>) @@ ("," :> <<"2", "C">>) @@
    ("/" :> <<"2", "F">>) @@ (":" :> <<"3", "A">>) @@ (";" :> <<"3", "B">>) @@
    ("=" :> <<"3", "D">>) @@ ("?" :> <<"3", "F">>)

\* Mutant of QueryEscape: nothing is escaped.
QueryEscape_identity(s) == s

\* url.QueryEscape
RECURSIVE QueryEscape(_)
QueryEscape(s) ==
    IF s = <<>> THEN <<>>
    ELSE LET c == Head(s)
             e == IF c = " " THEN <<"+">>
                  ELSE IF c \in DOMAIN EscapeTable THEN <<"%">> \o EscapeTable[c]
                  ELSE <<c>>
         IN  e \o QueryEscape(Tail(s))

\* url.QueryUnescape fails when a % is not followed by two hex digits.
UnescapeOk(s) ==
    \A i \in DOMAIN s :
        s[i] = "%" =>
            /\ i + 2 <= Len(s)
            /\ s[i + 1] \in HexDigits
            /\ s[i + 2] \in HexDigits

\* The character a %XX escape stands for (the escapes of EscapeTable).
Unhex(h) ==
    IF \E c \in DOMAIN EscapeTable : EscapeTable[c] = h
    THEN CHOOSE c \in DOMAIN EscapeTable : EscapeTable[c] = h
    ELSE "?"

\* url.QueryUnescape on a string that passed UnescapeOk.
RECURSIVE QueryUnescape(_)
QueryUnescape(s) ==
    IF s = <<>> THEN <<>>
    ELSE IF Head(s) = "%"
         THEN <<Unhex(SubSeq(s, 2, 3))>> \o QueryUnescape(SubSeq(s, 4, Len(s)))
    ELSE IF Head(s) = "+" THEN <<" ">> \o QueryUnescape(Tail(s))
    ELSE <<Head(s)>> \o QueryUnescape(Tail(s))

\* url.Values: a map from key to the list of its values.
EmptyValues == [k \in {} |-> <<>>]

\* Mutant of ValuesSet: appends to the values of the key (url.Values.Add).
ValuesSet_append(m, key, v) ==
    [k \in DOMAIN m \cup {key} |->
        IF k = key
        THEN (IF key \in DOMAIN m THEN m[key] ELSE <<>>) \o <<v>>
        ELSE m[k]]

\* Mutant of ValuesSet: the map is replaced by one holding only the key.
ValuesSet_onlyKey(m, key, v) == [k \in {key} |-> <<v>>]

\* url.Values.Set: replaces every value of the key by the one given.
ValuesSet(m, key, v) ==
    [k \in DOMAIN m \cup {key} |-> IF k = key THEN <<v>> ELSE m[k]]

\* url.Values.Add (the append ParseQuery does for each pair).
ValuesAdd(m, key, v) ==
    [k \in DOMAIN m \cup {key} |->
        IF k = key
        THEN (IF key \in DOMAIN m THEN m[key] ELSE <<>>) \o <<v>>
        ELSE m[k]]

\* url.Values.Get: the first value of the key, "" when there is none.
ValuesGet(m, key) ==
    IF key \in DOMAIN m /\ m[key] # <<>> THEN m[key][1] ELSE <<>>

\* url.ParseQuery as URL.Query uses it: the error is dropped, and with it
\* every pair that holds a semicolon or a bad escape.
RECURSIVE ParseQuery(_, _)
ParseQuery(m, query) ==
    IF query = <<>> THEN m
    ELSE LET seg  == CutBefore(query, "&")
             rest == CutAfter(query, "&")
             k    == CutBefore(seg, "=")
             v    == CutAfter(seg, "=")
         IN  IF IndexOf(seg, ";") # 0 THEN ParseQuery(m, rest)
             ELSE IF seg = <<>> THEN ParseQuery(m, rest)
             ELSE IF ~UnescapeOk(k) \/ ~UnescapeOk(v) THEN ParseQuery(m, rest)
             ELSE ParseQuery(ValuesAdd(m, QueryUnescape(k), QueryUnescape(v)), rest)

\* req.URL.Query()
Query(raw) == ParseQuery(EmptyValues, raw)

\* The pairs key=value of one key, in the order of its values.
RECURSIVE EncodeKey(_, _)
EncodeKey(k, vs) ==
    IF vs = <<>> THEN <<>>
    ELSE << QueryEscape(k) \o <<"=">> \o QueryEscape(Head(vs)) >> \o EncodeKey(k, Tail(vs))

RECURSIVE EncodePairs(_, _)
EncodePairs(m, keys) ==
    IF keys = <<>> THEN <<>>
    ELSE EncodeKey(Head(keys), m[Head(keys)]) \o EncodePairs(m, Tail(keys))

\* url.Values.Encode: "k=v" pairs sorted by key, joined by "&".
Encode(m) == Join(EncodePairs(m, SortStrings(DOMAIN m)), <<"&">>)

(***************************************************************************)
(* Query parameter builder (query_builder.go)                              *)
(***************************************************************************)

\* Mutant of buildQuery: the builder starts from an empty parameter set.
buildQuery_empty(raw) == EmptyValues

\* buildQuery: the builder starts from a parsed copy of the request's query.
buildQuery(raw) == Query(raw)

\* setBool: v is <<>> for a nil pointer, <<TRUE>> or <<FALSE>> otherwise.
setBool(values, key, v) ==
    IF v # <<>> THEN ValuesSet(values, key, FormatBool(v[1])) ELSE values

\* Mutant of setString: the value is not trimmed before the test.
setString_noTrim(values, key, v) ==
    IF v # <<>> THEN ValuesSet(values, key, v) ELSE values

\* setString
setString(values, key, v) ==
    IF TrimSpace(v) # <<>> THEN ValuesSet(values, key, v) ELSE values

\* setStrings: v is the list; a nil slice and an empty slice both have length 0.
setStrings(values, key, v) ==
    IF Len(v) > 0 THEN ValuesSet(values, key, Join(v, <<",">>)) ELSE values

\* apply: the string assigned to req.URL.RawQuery.
apply(values) == Encode(values)

\* ---- the inputs the builder actions draw from ----

kLang == <<"l", "a", "n", "g">>
kFlag == <<"f", "l", "a", "g">>
Keys == {kLang, kFlag}

BoolInputs == {<<>>, <<TRUE>>, <<FALSE>>}
StringInputs == {<<>>, <<" ", "\t">>, <<"e", "n">>}
StringsInputs == {<<>>, << <<"7", "2", "0", "p">>, <<"x", "2", "6", "4">> >>}

\* Raw query strings a request can carry when a builder is created:
\*   ""   lang=fr   page=2&page=1   flag=a+b%2C&page=2   page=2&x=%zz
ReqQueries ==
    { <<>>,
      <<"l", "a", "n", "g", "=", "f", "r">>,
      <<"p", "a", "g", "e", "=", "2", "&", "p", "a", "g", "e", "=", "1">>,
      <<"f", "l", "a", "g", "=", "a", "+", "b", "%", "2", "C", "&",
        "p", "a", "g", "e", "=", "2">>,
      <<"p", "a", "g", "e", "=", "2", "&", "x", "=", "%", "z", "z">> }

\* The builders that exist are fixed by the initial state.
Builders == DOMAIN builder

\* At most MaxCalls setter calls are made in all, and a builder is applied
\* at most MaxApplies times in a row.
MaxCalls == 2
MaxApplies == 2

SetterOps == {"setBool", "setString", "setStrings"}

RECURSIVE SumCalls(_)
SumCalls(B) ==
    IF B = {} THEN 0
    ELSE LET b == CHOOSE x \in B : TRUE IN Len(hist[b].calls) + SumCalls(B \ {b})

TotalCalls == SumCalls(Builders)

NoOp == [op |-> "none", b |-> "none"]

\* One request, and the builders B not yet created on it.
InitQuery(B) ==
    /\ reqRawQuery \in ReqQueries
    /\ builder = [b \in B |-> [built |-> FALSE, values |-> EmptyValues]]
    /\ hist = [b \in B |-> [baseRaw |-> <<>>, calls |-> <<>>, applyOut |-> <<>>]]
    /\ lastOp = NoOp

\* Mutant of Setter: the setter writes through to the request.
Setter_writeThrough(b, op, key, v, newValues) ==
    /\ builder[b].built
    /\ TotalCalls < MaxCalls
    /\ builder' = [builder EXCEPT ![b].values = newValues]
    /\ hist' = [hist EXCEPT ![b].calls = Append(@, [op |-> op, key |-> key, arg |-> v]),
                            ![b].applyOut = <<>>]
    /\ lastOp' = [op |-> op, b |-> b]
    /\ reqRawQuery' = Encode(newValues)
    /\ UNCHANGED kvars

\* A setter call on builder b: only the builder's own values change.
Setter(b, op, key, v, newValues) ==
    /\ builder[b].built
    /\ TotalCalls < MaxCalls
    /\ builder' = [builder EXCEPT ![b].values = newValues]
    /\ hist' = [hist EXCEPT ![b].calls = Append(@, [op |-> op, key |-> key, arg |-> v]),
                            ![b].applyOut = <<>>]
    /\ lastOp' = [op |-> op, b |-> b]
    /\ UNCHANGED <<reqRawQuery, kvars>>

BuildQuery(b) ==
    /\ ~builder[b].built
    /\ builder' = [builder EXCEPT ![b] = [built |-> TRUE, values |-> buildQuery(reqRawQuery)]]
    /\ hist' = [hist EXCEPT ![b].baseRaw = reqRawQuery]
    /\ lastOp' = [op |-> "buildQuery", b |-> b]
    /\ UNCHANGED <<reqRawQuery, svars, cvars, kvars>>

SetBool(b, key, v) ==
    /\ Setter(b, "setBool", key, v, setBool(builder[b].values, key, v))
    /\ UNCHANGED <<svars, cvars, kvars>>

SetString(b, key, v) ==
    /\ Setter(b, "setString", key, v, setString(builder[b].values, key, v))
    /\ UNCHANGED <<svars, cvars, kvars>>

SetStrings(b, key, v) ==
    /\ Setter(b, "setStrings", key, v, setStrings(builder[b].values, key, v))
    /\ UNCHANGED <<svars, cvars, kvars>>

\* Mutant of Apply: the encoded parameters are appended to the query string.
Apply_append(b) ==
    /\ builder[b].built
    /\ Len(hist[b].applyOut) < MaxApplies
    /\ reqRawQuery' = IF reqRawQuery = <<>>
                      THEN apply(builder[b].values)
                      ELSE reqRawQuery \o <<"&">> \o apply(builder[b].values)
    /\ hist' = [hist EXCEPT ![b].applyOut = Append(@, reqRawQuery')]
    /\ lastOp' = [op |-> "apply", b |-> b]
    /\ UNCHANGED <<builder, svars, cvars, kvars>>

\* apply: the request's query string is overwritten.
Apply(b) ==
    /\ builder[b].built
    /\ Len(hist[b].applyOut) < MaxApplies
    /\ reqRawQuery' = apply(builder[b].values)
    /\ hist' = [hist EXCEPT ![b].applyOut = Append(@, reqRawQuery')]
    /\ lastOp' = [op |-> "apply", b |-> b]
    /\ UNCHANGED <<builder, svars, cvars, kvars>>

(***************************************************************************)
(* URL signer (signCDNToken)                                               *)
(***************************************************************************)

DigitChars == <<"0", "1", "2", "3", "4", "5", "6", "7", "8", "9">>

RECURSIVE FormatNat(_)
FormatNat(n) ==
    IF n < 10 THEN <<DigitChars[n + 1]>>
    ELSE FormatNat(n \div 10) \o <<DigitChars[(n % 10) + 1]>>

\* fmt.Sprintf("%d", n) for an int64.
FormatInt(n) == IF n < 0 THEN <<"-">> \o FormatNat(-n) ELSE FormatNat(n)

kTokenCountries ==
    <<"t", "o", "k", "e", "n", "_", "c", "o", "u", "n", "t", "r", "i", "e", "s">>

kTokenCountriesBlocked == kTokenCountries \o <<"_", "b", "l", "o", "c", "k", "e", "d">>

\* The extra query parameters collected from the options.
cdnExtraParams(opts) ==
    LET a == IF opts.CountriesAllowed # <<>>
             THEN ValuesSet(EmptyValues, kTokenCountries, opts.CountriesAllowed)
             ELSE EmptyValues
    IN  IF opts.CountriesBlocked # <<>>
        THEN ValuesSet(a, kTokenCountriesBlocked, opts.CountriesBlocked)
        ELSE a

\* The orders in which `for k := range extraParams` may yield the keys of
\* the map: Go leaves the iteration order of a map unspecified.
RangeOrders(m) ==
    {order \in [1..Cardinality(DOMAIN m) -> DOMAIN m] :
        \A i, j \in DOMAIN order : i # j => order[i] # order[j]}

\* Mutant of cdnKeys: the keys are used in the order the map yields them.
cdnKeys_unsorted(order) == order

\* keys: the keys appended in the order of the iteration, then sorted.
cdnKeys(order) == SortStrings({order[i] : i \in DOMAIN order})

\* Mutant of cdnParamStr: the values are URL-encoded.
cdnParamStr_escaped(opts, order) ==
    LET extraParams == cdnExtraParams(opts)
        keys  == cdnKeys(order)
        pairs == [i \in 1..Len(keys) |->
                     keys[i] \o <<"=">> \o QueryEscape(ValuesGet(extraParams, keys[i]))]
    IN  Join(pairs, <<"&">>)

\* paramStr: "key=value" pairs in ascending key order joined by "&", the
\* values not URL-encoded.
cdnParamStr(opts, order) ==
    LET extraParams == cdnExtraParams(opts)
        keys  == cdnKeys(order)
        pairs == [i \in 1..Len(keys) |->
                     keys[i] \o <<"=">> \o ValuesGet(extraParams, keys[i])]
    IN  Join(pairs, <<"&">>)

\* The hashable string: key, path, decimal expiry, then the user IP and the
\* parameter string when they are not empty, with nothing in between.
cdnHashable(key, path, expiry, opts, order) ==
    LET base     == key \o path \o FormatInt(expiry)
        withIP   == IF opts.UserIP # <<>> THEN base \o opts.UserIP ELSE base
        paramStr == cdnParamStr(opts, order)
    IN  IF paramStr # <<>> THEN withIP \o paramStr ELSE withIP

\* SHA-256, modelled as collision-free: the digest is identified by the
\* message it was computed from.
Sha256(msg) == [sha256 |-> msg]

\* The base64 text of a digest after the replacements of "+", "/", "=" and
\* newlines; it is identified by the digest it encodes.
UrlSafeBase64(raw) == [b64url |-> raw]

\* ---- the text of the token: lines 243 to 247 of signCDNToken ----

\* The alphabet of base64.StdEncoding and its padding character.
Base64Alphabet ==
    <<"A", "B", "C", "D", "E", "F", "G", "H", "I", "J", "K", "L", "M", "N", "O", "P",
      "Q", "R", "S", "T", "U", "V", "W", "X", "Y", "Z", "a", "b", "c", "d", "e", "f",
      "g", "h", "i", "j", "k", "l", "m", "n", "o", "p", "q", "r", "s", "t", "u", "v",
      "w", "x", "y", "z", "0", "1", "2", "3", "4", "5", "6", "7", "8", "9", "+", "/">>

\* The k-th six bits (k = 0..3) of the g-th group of three bytes; a byte
\* past the end of the input counts as zero.
Sextet(bytes, g, k) ==
    LET B(i) == IF 3 * g + i <= Len(bytes) THEN bytes[3 * g + i] ELSE 0
    IN  CASE k = 0 -> B(1) \div 4
          [] k = 1 -> (B(1) % 4) * 16 + (B(2) \div 16)
          [] k = 2 -> (B(2) % 16) * 4 + (B(3) \div 64)
          [] k = 3 -> B(3) % 64

\* base64.StdEncoding.EncodeToString: four characters for every three
\* bytes, the last group padded with "="; it writes no line breaks.
EncodeToString(bytes) ==
    [j \in 1..(4 * ((Len(bytes) + 2) \div 3)) |->
        LET g == (j - 1) \div 4
            k == (j - 1) % 4
        IN  IF k > Len(bytes) - 3 * g THEN "="
            ELSE Base64Alphabet[Sextet(bytes, g, k) + 1]]

\* strings.ReplaceAll(s, old, new) for a one-character old and a new of one
\* character or none.
ReplaceAll(s, old, new) ==
    IF new = "" THEN SelectSeq(s, LAMBDA c : c # old)
    ELSE [i \in DOMAIN s |-> IF s[i] = old THEN new ELSE s[i]]

\* Mutant of tokenText: the padding is not removed.
tokenText_padded(raw) ==
    ReplaceAll(ReplaceAll(ReplaceAll(EncodeToString(raw), "\n", ""), "+", "-"), "/", "_")

\* The token signCDNToken makes of the digest raw.
tokenText(raw) ==
    ReplaceAll(ReplaceAll(ReplaceAll(ReplaceAll(EncodeToString(raw),
        "\n", ""), "+", "-"), "/", "_"), "=", "")

\* Mutant of signCDNToken: the expiry is left out of the hashed string.
signCDNToken_noExpiry(key, path, expiry, opts, order) ==
    UrlSafeBase64(Sha256(
        key \o path \o (IF opts.UserIP # <<>> THEN opts.UserIP ELSE <<>>)
            \o cdnParamStr(opts, order)))

\* Mutant of signCDNToken: the user IP is left out of the hashed string.
signCDNToken_noUserIP(key, path, expiry, opts, order) ==
    UrlSafeBase64(Sha256(key \o path \o FormatInt(expiry) \o cdnParamStr(opts, order)))

\* signCDNToken: the token for a key, a path, an expiry and the options,
\* when the iteration over the extra parameters yields them in `order`.
signCDNToken(key, path, expiry, opts, order) ==
    UrlSafeBase64(Sha256(cdnHashable(key, path, expiry, opts, order)))

\* ---- the inputs the signer actions draw from ----

\* secret keys "k", "k/"; paths "/v", "/v1"; expiries 1, 11;
\* user IPs "", "1"; allowed "", "US", "US&token_countries_blocked=CN";
\* blocked "", "CN"
SecretKeys == {<<"k">>, <<"k", "/">>}
Paths == {<<"/", "v">>, <<"/", "v", "1">>}
Expiries == {1, 11}
UserIPs == {<<>>, <<"1">>}
AllowedLists ==
    {<<>>, <<"U", "S">>,
     <<"U", "S", "&">> \o kTokenCountriesBlocked \o <<"=", "C", "N">>}
BlockedLists == {<<>>, <<"C", "N">>}

SignedURLOptions ==
    [UserIP : UserIPs, CountriesAllowed : AllowedLists, CountriesBlocked : BlockedLists]

\* The clock is followed up to MaxClock seconds.
MaxClock == 1

\* No digest is being encoded.
NotEncoding == [pc |-> "none"]

InitSigner == now = 0 /\ sig = [i \in {1, 2} |-> [done |-> FALSE]] /\ enc = NotEncoding

\* time passes
Tick ==
    /\ now < MaxClock
    /\ now' = now + 1
    /\ lastOp' = [op |-> "tick", b |-> "none"]
    /\ UNCHANGED <<sig, enc, qvars, cvars, kvars>>

\* The i-th call of signCDNToken; the second call follows the first.
SignCDNToken(i, key, path, expiry, opts) ==
    /\ ~sig[i].done
    /\ i = 2 => sig[1].done
    /\ \E order \in RangeOrders(cdnExtraParams(opts)) :
           sig' = [sig EXCEPT ![i] =
                      [done |-> TRUE, key |-> key, path |-> path, expiry |-> expiry,
                       opts |-> opts, at |-> now,
                       token |-> signCDNToken(key, path, expiry, opts, order)]]
    /\ lastOp' = [op |-> "signCDNToken", b |-> "none"]
    /\ UNCHANGED <<now, enc, qvars, cvars, kvars>>

\* ---- the digests the encoding is exercised on ----

\* sha256.Size: the number of bytes of a digest.
DigestSize == 32

\* Byte values whose bits make every character position "+" or "/":
\* FB EF BE is "++++", FF FF FF is "////".
SampleBytes == {0, 16, 62, 77, 190, 239, 251, 255}

\* Digests in which a pattern of three sample bytes is repeated.
Digests ==
    {[i \in 1..DigestSize |-> <<a, b, c>>[((i - 1) % 3) + 1]] :
        a \in SampleBytes, b \in SampleBytes, c \in SampleBytes}

\* A digest has been computed and is about to be encoded.
InitEncode == enc \in [pc : {"digest"}, raw : Digests]

\* Lines 243 to 247 of signCDNToken: the digest becomes the token.
EncodeToken ==
    /\ enc.pc = "digest"
    /\ enc' = [pc |-> "token", raw |-> enc.raw, token |-> tokenText(enc.raw)]
    /\ lastOp' = [op |-> "signCDNToken.encode", b |-> "none"]
    /\ UNCHANGED <<now, sig, qvars, cvars, kvars>>

(***************************************************************************)
(* API client core (NewClient's Client, request, doRequest,                *)
(* checkResponseError, CreateVideoObject, UploadVideo)                     *)
(***************************************************************************)

\* Error values. A sentinel is identified by the name of its variable; an
\* error made with fmt.Errorf("...: %w", err) wraps its cause.
NilError == [kind |-> "nil"]
Sentinel(name) == [kind |-> "sentinel", name |-> name]
Wrapped(text, cause) == [kind |-> "wrapped", text |-> text, cause |-> cause]

\* parseErrorMessage cuts the body after MessageLimit bytes.
MessageLimit == 200

\* Mutant of parseErrorMessage: the whole body is the message.
parseErrorMessage_whole(body) == body

\* parseErrorMessage
parseErrorMessage(body) ==
    IF Len(body) > MessageLimit
    THEN SubSeq(body, 1, MessageLimit) \o <<".", ".", ".">>
    ELSE body

\* newAPIError
newAPIError(statusCode, body) ==
    [kind |-> "APIError", StatusCode |-> statusCode, Body |-> body,
     Message |-> parseErrorMessage(body)]

\* Mutant of checkResponseError: 403 has no case of its own and 204 is not
\* among the success codes.
checkResponseError_short(statusCode, body) ==
    CASE statusCode \in {200, 201, 202} -> NilError
      [] statusCode = 400 -> newAPIError(statusCode, body)
      [] statusCode = 401 -> Sentinel("ErrUnauthorized")
      [] statusCode = 404 -> Sentinel("ErrVideoNotFound")
      [] statusCode = 429 -> Sentinel("ErrRateLimited")
      [] statusCode = 500 -> Sentinel("ErrInternalServer")
      [] statusCode = 503 -> Sentinel("ErrServiceUnavailable")
      [] OTHER -> newAPIError(statusCode, body)

\* checkResponseError
checkResponseError(statusCode, body) ==
    CASE statusCode \in {200, 201, 202, 204} -> NilError
      [] statusCode = 400 -> newAPIError(statusCode, body)
      [] statusCode = 401 -> Sentinel("ErrUnauthorized")
      [] statusCode = 404 -> Sentinel("ErrVideoNotFound")
      [] statusCode = 429 -> Sentinel("ErrRateLimited")
      [] statusCode = 500 -> Sentinel("ErrInternalServer")
      [] statusCode = 503 -> Sentinel("ErrServiceUnavailable")
      [] statusCode = 403 -> Sentinel("ErrForbidden")
      [] OTHER -> newAPIError(statusCode, body)

(***************************************************************************)
(* Config: validate, init and NewClient                                    *)
(***************************************************************************)

\* An error made with fmt.Errorf("%w: %w", a, b) wraps both of its causes.
WrappedBoth(a, b) == [kind |-> "wrapped2", causes |-> {a, b}]

\* errors.Is
RECURSIVE ErrorsIs(_, _)
ErrorsIs(err, target) ==
    \/ err = target
    \/ err.kind = "wrapped" /\ ErrorsIs(err.cause, target)
    \/ err.kind = "wrapped2" /\ \E c \in err.causes : ErrorsIs(c, target)

DefaultMaxRetries == 3
DefaultTimeout == 60
DefaultUserAgent == "bunnystream-go/0.1.0"
DefaultBaseURL ==
    <<"h", "t", "t", "p", "s", ":", "/", "/", "v", "i", "d", "e", "o", ".",
      "b", "u", "n", "n", "y", "c", "d", "n", ".", "c", "o", "m">>

NilHTTPClient == [kind |-> "nil"]
NilClient == [kind |-> "nil"]

\* Mutant of validate: the library ID is checked before the API key.
validate_libraryFirst(cfg) ==
    IF cfg.LibraryID = <<>>
    THEN WrappedBoth(Sentinel("ErrInvalidConfig"), Sentinel("ErrLibraryIDRequired"))
    ELSE IF cfg.APIKey = ""
    THEN WrappedBoth(Sentinel("ErrInvalidConfig"), Sentinel("ErrAPIKeyRequired"))
    ELSE NilError

\* Config.validate
validate(cfg) ==
    IF cfg.APIKey = ""
    THEN WrappedBoth(Sentinel("ErrInvalidConfig"), Sentinel("ErrAPIKeyRequired"))
    ELSE IF cfg.LibraryID = <<>>
    THEN WrappedBoth(Sentinel("ErrInvalidConfig"), Sentinel("ErrLibraryIDRequired"))
    ELSE NilError

\* The fields Config.init defaults, in the order in which it visits them.
InitFields == <<"UserAgent", "MaxRetries", "Timeout", "BaseURL", "HTTPClient">>

\* Mutant of Unset: an empty BaseURL is taken for a set one.
Unset_notBaseURL(cfg, f) ==
    CASE f = "UserAgent"  -> cfg.UserAgent = ""
      [] f = "MaxRetries" -> cfg.MaxRetries < 1
      [] f = "Timeout"    -> cfg.Timeout < 1
      [] f = "BaseURL"    -> FALSE
      [] f = "HTTPClient" -> cfg.HTTPClient = NilHTTPClient

\* The test Config.init makes of a field before it defaults it.
Unset(cfg, f) ==
    CASE f = "UserAgent"  -> cfg.UserAgent = ""
      [] f = "MaxRetries" -> cfg.MaxRetries < 1
      [] f = "Timeout"    -> cfg.Timeout < 1
      [] f = "BaseURL"    -> cfg.BaseURL = <<>>
      [] f = "HTTPClient" -> cfg.HTTPClient = NilHTTPClient

\* Mutant of DefaultOf: the default HTTP client gets the default timeout,
\* whatever the Timeout of the Config is.
DefaultOf_fixedTimeout(cfg, f, g) ==
    CASE f = "UserAgent"  -> DefaultUserAgent
      [] f = "MaxRetries" -> DefaultMaxRetries
      [] f = "Timeout"    -> DefaultTimeout
      [] f = "BaseURL"    -> DefaultBaseURL
      [] f = "HTTPClient" -> [kind |-> "http.Client", Timeout |-> DefaultTimeout, by |-> g]

\* The value Config.init assigns to a field; the HTTP client is a new
\* object, identified by the caller `g` that allocated it.
DefaultOf(cfg, f, g) ==
    CASE f = "UserAgent"  -> DefaultUserAgent
      [] f = "MaxRetries" -> DefaultMaxRetries
      [] f = "Timeout"    -> DefaultTimeout
      [] f = "BaseURL"    -> DefaultBaseURL
      [] f = "HTTPClient" -> [kind |-> "http.Client", Timeout |-> cfg.Timeout, by |-> g]

\* One `if` of Config.init.
initField(cfg, f, g) ==
    IF Unset(cfg, f) THEN [cfg EXCEPT ![f] = DefaultOf(cfg, f, g)] ELSE cfg

\* Config.init run by caller g without interference.
init(cfg, g) ==
    initField(initField(initField(initField(initField(cfg,
        InitFields[1], g), InitFields[2], g), InitFields[3], g),
        InitFields[4], g), InitFields[5], g)

\* The Client NewClient builds from a defaulted Config; the config field
\* is the pointer to the shared Config, held in the variable config.
clientOf(cfg) ==
    [kind |-> "client", httpClient |-> cfg.HTTPClient, baseURL |-> cfg.BaseURL,
     libraryID |-> cfg.LibraryID, apiKey |-> cfg.APIKey]

\* ---- the Configs the model starts from ----

\* The client under test: the fields NewClient copies from its Config.
ClientAPIKey == "test-key"
ClientUserAgent == "bunnystream-go/0.1.0"
ClientLibraryID == <<"1", "2", "3">>
ClientBaseURL == <<"h", "t", "t", "p", "s", ":", "/", "/", "a", "p", "i">>
CustomHTTPClient == [kind |-> "http.Client", Timeout |-> 5, by |-> "user"]

\* Configs as a caller fills them in: the required and the defaulted
\* fields, the CDN hostname and the embed key each set or left at the zero
\* value.
Configs ==
    [APIKey : {"", ClientAPIKey}, LibraryID : {<<>>, ClientLibraryID},
     CDNHostname : {<<>>, <<"h", "/">>}, EmbedTokenKey : {<<>>, <<"e">>},
     CDNTokenKey : {<<"k">>},
     UserAgent : {"", "my-app/1.0"}, BaseURL : {<<>>, ClientBaseURL},
     HTTPClient : {NilHTTPClient, CustomHTTPClient},
     MaxRetries : {0, 5}, Timeout : {0, 30}]

\* The Configs of the client the API operations are called on: the retry
\* count left at zero or set to 2.
ClientConfigs ==
    [APIKey : {ClientAPIKey}, LibraryID : {ClientLibraryID},
     CDNHostname : {<<"h", "/">>}, EmbedTokenKey : {<<"e">>}, CDNTokenKey : {<<"k">>},
     UserAgent : {ClientUserAgent}, BaseURL : {ClientBaseURL},
     HTTPClient : {NilHTTPClient}, MaxRetries : {0, 2}, Timeout : {0}]

\* The Configs of the client the URL generators are called on: CDN
\* hostnames "", "h", "h/", "/"; signing keys "", "e" and "", "k".
URLConfigs ==
    [APIKey : {ClientAPIKey}, LibraryID : {ClientLibraryID},
     CDNHostname : {<<>>, <<"h">>, <<"h", "/">>, <<"/">>},
     EmbedTokenKey : {<<>>, <<"e">>}, CDNTokenKey : {<<>>, <<"k">>},
     UserAgent : {""}, BaseURL : {<<>>},
     HTTPClient : {NilHTTPClient}, MaxRetries : {0}, Timeout : {0}]

\* The callers of NewClient that share the Config.
Callers == {"g1", "g2"}

\* Before NewClient is called.
InitConfig(C) ==
    /\ config \in C
    /\ mu = "free"
    /\ caller = [g \in Callers |-> [pc |-> "start", field |-> 0, nilCfg |-> FALSE,
                                    err |-> NilError, client |-> NilClient]]
    /\ written = [f \in {InitFields[i] : i \in DOMAIN InitFields} |-> 0]
    /\ client = NilClient

\* The state a constructed client is used in: caller g1 has run NewClient
\* on cfg, alone; the client it got is the one the operations are called on.
Constructed(cfg) ==
    /\ validate(cfg) = NilError
    /\ config = init(cfg, "g1")
    /\ mu = "free"
    /\ caller = [g \in Callers |->
                    IF g = "g1"
                    THEN [pc |-> "done", field |-> 0, nilCfg |-> FALSE,
                          err |-> NilError, client |-> clientOf(init(cfg, "g1"))]
                    ELSE [pc |-> "start", field |-> 0, nilCfg |-> FALSE,
                          err |-> NilError, client |-> NilClient]]
    /\ written = [f \in {InitFields[i] : i \in DOMAIN InitFields} |->
                     IF Unset(cfg, f) THEN 1 ELSE 0]
    /\ client = clientOf(init(cfg, "g1"))

\* The step after field number i of Config.init.
AfterField(i) ==
    IF i < Len(InitFields) THEN [pc |-> "test", field |-> i + 1]
    ELSE [pc |-> "unlock", field |-> 0]

\* NewClient up to cfg.init(): the nil check and cfg.validate().  The
\* caller passes nil or the shared Config.
NewClientValidate(g, nilCfg) ==
    /\ caller[g].pc = "start"
    /\ LET err == IF nilCfg THEN Sentinel("ErrInvalidConfig") ELSE validate(config)
       IN  caller' = [caller EXCEPT ![g] =
                         [pc |-> IF err = NilError THEN "lock" ELSE "done",
                          field |-> 0, nilCfg |-> nilCfg, err |-> err,
                          client |-> NilClient]]
    /\ lastOp' = [op |-> "NewClient.validate", b |-> g]
    /\ UNCHANGED <<config, mu, written, client, qvars, svars, cvars>>

\* Mutant of ConfigLock: init does not take the mutex.
ConfigLock_absent(g) ==
    /\ caller[g].pc = "lock"
    /\ caller' = [caller EXCEPT ![g].pc = "test", ![g].field = 1]
    /\ lastOp' = [op |-> "Config.init.Lock", b |-> g]
    /\ UNCHANGED <<config, mu, written, client, qvars, svars, cvars>>

\* c.mu.Lock() at the head of Config.init
ConfigLock(g) ==
    /\ caller[g].pc = "lock"
    /\ mu = "free"
    /\ mu' = g
    /\ caller' = [caller EXCEPT ![g].pc = "test", ![g].field = 1]
    /\ lastOp' = [op |-> "Config.init.Lock", b |-> g]
    /\ UNCHANGED <<config, written, client, qvars, svars, cvars>>

\* The condition of one `if` of Config.init is evaluated.
ConfigTest(g) ==
    /\ caller[g].pc = "test"
    /\ LET i == caller[g].field
       IN  IF Unset(config, InitFields[i])
           THEN caller' = [caller EXCEPT ![g].pc = "write", ![g].field = i]
           ELSE caller' = [caller EXCEPT ![g].pc = AfterField(i).pc,
                                           ![g].field = AfterField(i).field]
    /\ lastOp' = [op |-> "Config.init.test", b |-> g]
    /\ UNCHANGED <<config, mu, written, client, qvars, svars, cvars>>

\* The assignment of one `if` of Config.init.
ConfigWrite(g) ==
    /\ caller[g].pc = "write"
    /\ LET i == caller[g].field
           f == InitFields[i]
       IN  /\ config' = [config EXCEPT ![f] = DefaultOf(config, f, g)]
           /\ written' = [written EXCEPT ![f] = @ + 1]
           /\ caller' = [caller EXCEPT ![g].pc = AfterField(i).pc,
                                           ![g].field = AfterField(i).field]
    /\ lastOp' = [op |-> "Config.init.write", b |-> g]
    /\ UNCHANGED <<mu, client, qvars, svars, cvars>>

\* The deferred c.mu.Unlock() of Config.init
ConfigUnlock(g) ==
    /\ caller[g].pc = "unlock"
    /\ mu' = IF mu = g THEN "free" ELSE mu
    /\ caller' = [caller EXCEPT ![g].pc = "copyHTTPClient", ![g].field = 0]
    /\ lastOp' = [op |-> "Config.init.Unlock", b |-> g]
    /\ UNCHANGED <<config, written, client, qvars, svars, cvars>>

\* The Client literal of NewClient reads cfg.HTTPClient ...
NewClientCopyHTTPClient(g) ==
    /\ caller[g].pc = "copyHTTPClient"
    /\ caller' = [caller EXCEPT ![g].pc = "copyRest",
                                ![g].client = [kind |-> "partial",
                                               httpClient |-> config.HTTPClient]]
    /\ lastOp' = [op |-> "NewClient.copy", b |-> g]
    /\ UNCHANGED <<config, mu, written, client, qvars, svars, cvars>>

\* ... and then cfg.BaseURL, cfg.LibraryID and cfg.APIKey.
NewClientCopyRest(g) ==
    /\ caller[g].pc = "copyRest"
    /\ caller' = [caller EXCEPT ![g].pc = "done",
                                ![g].client =
                                    [clientOf(config) EXCEPT
                                        !.httpClient = caller[g].client.httpClient]]
    /\ lastOp' = [op |-> "NewClient.return", b |-> g]
    /\ UNCHANGED <<config, mu, written, client, qvars, svars, cvars>>


(***************************************************************************)
(* Requests and responses                                                  *)
(***************************************************************************)

NilResponse == [kind |-> "nil"]
NoRequest == [kind |-> "none"]

\* buildURL with the two endpoint formats of the client.
buildURL(path) == client.baseURL \o path

videosPath == <<"/", "l", "i", "b", "r", "a", "r", "y", "/">> \o client.libraryID
                  \o <<"/", "v", "i", "d", "e", "o", "s">>

\* url.Parse, as far as http.NewRequestWithContext depends on it: the URL
\* is refused when it holds a control character or when its path holds a
\* bad escape; the query is the text between the first "?" and the "#".
urlNoFragment(url) == CutBefore(url, "#")
urlParses(url) ==
    /\ IndexOf(url, "\t") = 0
    /\ UnescapeOk(CutBefore(urlNoFragment(url), "?"))
urlRawQuery(url) == CutAfter(urlNoFragment(url), "?")

\* Mutant of request: the API key is not attached.
request_noAccessKey(method, url, body, contentType) ==
    IF ~urlParses(url)
    THEN [req |-> NoRequest,
          err |-> Wrapped("failed to create request", Sentinel("url.Error"))]
    ELSE [req |-> [kind |-> "request", method |-> method,
                   path |-> CutBefore(urlNoFragment(url), "?"),
                   rawQuery |-> urlRawQuery(url), body |-> body,
                   header |-> [h \in {"User-Agent", "Content-Type"} |->
                                  IF h = "User-Agent" THEN config.UserAgent
                                  ELSE contentType]],
          err |-> NilError]

\* request: the request with its headers set, or the error of its creation.
request(method, url, body, contentType) ==
    IF ~urlParses(url)
    THEN [req |-> NoRequest,
          err |-> Wrapped("failed to create request", Sentinel("url.Error"))]
    ELSE [req |-> [kind |-> "request", method |-> method,
                   path |-> CutBefore(urlNoFragment(url), "?"),
                   rawQuery |-> urlRawQuery(url), body |-> body,
                   header |-> IF contentType # ""
                              THEN [h \in {"AccessKey", "User-Agent", "Content-Type"} |->
                                       IF h = "AccessKey" THEN client.apiKey
                                       ELSE IF h = "User-Agent" THEN config.UserAgent
                                       ELSE contentType]
                              ELSE [h \in {"AccessKey", "User-Agent"} |->
                                       IF h = "AccessKey" THEN client.apiKey
                                       ELSE config.UserAgent]],
          err |-> NilError]

\* What the transport and the server do with one request: the transport
\* fails, the body cannot be read, or a response with a status and a body.
\* The status codes the server answers with: the codes checkResponseError
\* names, their neighbours, and codes of every class that it does not name.
StatusCodes ==
    {100, 199, 200, 201, 202, 203, 204, 205, 301, 400, 401, 402, 403, 404, 405,
     418, 428, 429, 430, 499, 500, 501, 502, 503, 504, 599}
ShortBody == <<"b", "a", "d">>
LimitBody == [i \in 1..MessageLimit |-> "x"]
LongBody == [i \in 1..(MessageLimit + 1) |-> "x"]
Bodies == {ShortBody, LimitBody, LongBody}
Outcomes ==
    {[kind |-> "transportError"], [kind |-> "readError"]}
        \cup [kind : {"response"}, status : StatusCodes, body : Bodies]

\* Mutant of doRequest: a transport error and the statuses 429, 500 and
\* 503 are retried until the transport was invoked Config.MaxRetries times.
doRequest_retry(req, outcome) ==
    IF outcome.kind = "transportError"
    THEN [resp |-> NilResponse,
          err |-> Wrapped("failed to perform request", Sentinel("transport")),
          sent |-> config.MaxRetries]
    ELSE IF outcome.kind = "readError"
    THEN [resp |-> NilResponse,
          err |-> Wrapped("failed to read response body", Sentinel("io")),
          sent |-> 1]
    ELSE [resp |-> [kind |-> "response", StatusCode |-> outcome.status,
                    Body |-> outcome.body],
          err |-> checkResponseError(outcome.status, outcome.body),
          sent |-> IF outcome.status \in {429, 500, 503}
                   THEN config.MaxRetries ELSE 1]

\* doRequest: the transport is invoked once, whatever Config.MaxRetries is;
\* the result is the pair it returns, the response being kept also when the
\* status is an error, and `sent` is the number of invocations.
doRequest(req, outcome) ==
    IF outcome.kind = "transportError"
    THEN [resp |-> NilResponse,
          err |-> Wrapped("failed to perform request", Sentinel("transport")),
          sent |-> 1]
    ELSE IF outcome.kind = "readError"
    THEN [resp |-> NilResponse,
          err |-> Wrapped("failed to read response body", Sentinel("io")),
          sent |-> 1]
    ELSE [resp |-> [kind |-> "response", StatusCode |-> outcome.status,
                    Body |-> outcome.body],
          err |-> checkResponseError(outcome.status, outcome.body),
          sent |-> 1]

\* ---- the inputs the client actions draw from ----

\* titles "", "  \t", "My"; video options: none, a collection ID
Titles == {<<>>, <<" ", " ", "\t">>, <<"M", "y">>}
VideoOptionSets ==
    {[CollectionID |-> <<>>, ThumbnailTime |-> <<>>],
     [CollectionID |-> <<"c", "1">>, ThumbnailTime |-> <<"5">>]}

\* video IDs "", " ", "v1", "%zz", "v?sourceLanguage=fr"
VideoIDs ==
    {<<>>, <<" ">>, <<"v", "1">>, <<"%", "z", "z">>,
     <<"v", "?", "s", "o", "u", "r", "c", "e", "L", "a", "n", "g", "u", "a", "g", "e",
       "=", "f", "r">>}

NoUploadOptions ==
    [jitEnabled |-> <<>>, enabledResolution |-> <<>>, enabledOutputCodecs |-> <<>>,
     transcribeEnabled |-> <<>>, transcribeLanguage |-> <<>>, sourceLanguage |-> <<>>,
     generateTitle |-> <<>>, genereateDesc |-> <<>>, generateChapter |-> <<>>,
     generateMoments |-> <<>>]

UploadOptionSets ==
    {NoUploadOptions,
     [NoUploadOptions EXCEPT !.jitEnabled = <<TRUE>>,
                             !.enabledResolution = << <<"7", "2", "0", "p">>,
                                                      <<"1", "0", "8", "0", "p">> >>,
                             !.sourceLanguage = <<"e", "n">>],
     [NoUploadOptions EXCEPT !.sourceLanguage = <<" ">>,
                             !.generateTitle = <<FALSE>>]}

\* The transport is followed for at most MaxTransport invocations.
MaxTransport == 2

InitClient == transportCalls = 0 /\ call = [op |-> "none"]

\* The body map CreateVideoObject encodes as JSON.
createBody(title, options) ==
    LET b1 == (<<"t", "i", "t", "l", "e">> :> title)
        b2 == IF options.CollectionID # <<>>
              THEN b1 @@ (<<"c", "o", "l", "l", "e", "c", "t", "i", "o", "n", "I", "d">>
                              :> options.CollectionID)
              ELSE b1
    IN  IF options.ThumbnailTime # <<>>
        THEN b2 @@ (<<"t", "h", "u", "m", "b", "n", "a", "i", "l", "T", "i", "m", "e">>
                        :> options.ThumbnailTime)
        ELSE b2

\* Mutant of dispatch: the Response doRequest returned is passed on with
\* the error.
dispatch_keepsResponse(pre, outcome) ==
    IF pre.err # NilError
    THEN [resp |-> NilResponse, err |-> pre.err, req |-> NoRequest, sent |-> 0]
    ELSE LET d == doRequest(pre.req, outcome)
         IN  [resp |-> d.resp, err |-> d.err, req |-> pre.req, sent |-> d.sent]

\* The tail of CreateVideoObject and of UploadVideo: the prepared request is
\* dispatched once and the pair of doRequest is returned, without the
\* response when there is an error; when the preparation failed, its error
\* is returned and nothing is dispatched.  `sent` counts the invocations of
\* the transport.
dispatch(pre, outcome) ==
    IF pre.err # NilError
    THEN [resp |-> NilResponse, err |-> pre.err, req |-> NoRequest, sent |-> 0]
    ELSE LET d == doRequest(pre.req, outcome)
         IN  IF d.err # NilError
             THEN [resp |-> NilResponse, err |-> d.err, req |-> pre.req, sent |-> d.sent]
             ELSE [resp |-> d.resp, err |-> NilError, req |-> pre.req, sent |-> d.sent]

\* CreateVideoObject up to the dispatch: the title is checked, the body is
\* encoded and the request is created.
createVideoRequest(title, options) ==
    IF TrimSpace(title) = <<>>
    THEN [req |-> NoRequest, err |-> Sentinel("ErrTitileRequired")]
    ELSE request("POST", buildURL(videosPath),
                 [json |-> createBody(title, options)], "application/json")

\* The query parameter names of UploadVideo.
qJitEnabled == <<"j", "i", "t", "E", "n", "a", "b", "l", "e", "d">>
qEnabledResolutions ==
    <<"e", "n", "a", "b", "l", "e", "d", "R", "e", "s", "o", "l", "u", "t", "i", "o", "n", "s">>
qEnabledOutputCodecs ==
    <<"e", "n", "a", "b", "l", "e", "d", "O", "u", "t", "p", "u", "t", "C", "o", "d", "e", "c", "s">>
qTranscribeEnabled ==
    <<"t", "r", "a", "n", "s", "c", "r", "i", "b", "e", "E", "n", "a", "b", "l", "e", "d">>
qTranscribeLanguages ==
    <<"t", "r", "a", "n", "s", "c", "r", "i", "b", "e", "L", "a", "n", "g", "u", "a", "g", "e", "s">>
qSourceLanguage ==
    <<"s", "o", "u", "r", "c", "e", "L", "a", "n", "g", "u", "a", "g", "e">>
qGenerateTitle == <<"g", "e", "n", "e", "r", "a", "t", "e", "T", "i", "t", "l", "e">>
qGenerateDescription ==
    <<"g", "e", "n", "e", "r", "a", "t", "e", "D", "e", "s", "c", "r", "i", "p", "t", "i", "o", "n">>
qGenerateChapters ==
    <<"g", "e", "n", "e", "r", "a", "t", "e", "C", "h", "a", "p", "t", "e", "r", "s">>
qGenerateMoments ==
    <<"g", "e", "n", "e", "r", "a", "t", "e", "M", "o", "m", "e", "n", "t", "s">>

\* The builder chain of UploadVideo, from buildQuery to apply.
uploadQuery(rawQuery, o) ==
    LET v0  == buildQuery(rawQuery)
        v1  == setBool(v0, qJitEnabled, o.jitEnabled)
        v2  == setStrings(v1, qEnabledResolutions, o.enabledResolution)
        v3  == setStrings(v2, qEnabledOutputCodecs, o.enabledOutputCodecs)
        v4  == setBool(v3, qTranscribeEnabled, o.transcribeEnabled)
        v5  == setStrings(v4, qTranscribeLanguages, o.transcribeLanguage)
        v6  == setString(v5, qSourceLanguage, o.sourceLanguage)
        v7  == setBool(v6, qGenerateTitle, o.generateTitle)
        v8  == setBool(v7, qGenerateDescription, o.genereateDesc)
        v9  == setBool(v8, qGenerateChapters, o.generateChapter)
        v10 == setBool(v9, qGenerateMoments, o.generateMoments)
    IN  apply(v10)

\* UploadVideo up to the dispatch: the video ID is checked, the request is
\* created and the builder chain rewrites its query string.
uploadVideoRequest(videoId, options) ==
    IF TrimSpace(videoId) = <<>>
    THEN [req |-> NoRequest, err |-> Sentinel("ErrVideoIDRequired")]
    ELSE LET r == request("PUT", buildURL(videosPath \o <<"/">> \o videoId),
                          [file |-> "videoFile"], "application/octet-stream")
         IN  IF r.err # NilError
             THEN r
             ELSE [req |-> [kind |-> "request", method |-> r.req.method,
                            path |-> r.req.path,
                            rawQuery |-> uploadQuery(r.req.rawQuery, options),
                            body |-> r.req.body, header |-> r.req.header],
                   err |-> NilError]

\* The transport is consulted only by a call that gets as far as the
\* dispatch.
NoOutcome == [kind |-> "none"]
OutcomesOf(pre) == IF pre.err = NilError THEN Outcomes ELSE {NoOutcome}

\* One call of CreateVideoObject, served by the transport with `outcome`
\* when the call gets that far.
CreateVideoObject(title, options) ==
    /\ transportCalls <= MaxTransport
    /\ \E pre \in {createVideoRequest(title, options)} :
       \E outcome \in OutcomesOf(pre) :
       \E res \in {dispatch(pre, outcome)} :
           /\ transportCalls + res.sent <= MaxTransport
           /\ transportCalls' = transportCalls + res.sent
           /\ call' = [op |-> "CreateVideoObject", arg |-> title, options |-> options,
                       outcome |-> outcome, sent |-> res.sent,
                       resp |-> res.resp, err |-> res.err, req |-> res.req]
    /\ lastOp' = [op |-> "CreateVideoObject", b |-> "none"]
    /\ UNCHANGED <<qvars, svars, kvars>>

\* Mutant of UploadVideo: the call counts itself in the Config it shares.
UploadVideo_countsInConfig(videoId, options) ==
    /\ transportCalls <= MaxTransport
    /\ \E pre \in {uploadVideoRequest(videoId, options)} :
       \E outcome \in OutcomesOf(pre) :
       \E res \in {dispatch(pre, outcome)} :
           /\ transportCalls + res.sent <= MaxTransport
           /\ transportCalls' = transportCalls + res.sent
           /\ call' = [op |-> "UploadVideo", arg |-> videoId, options |-> options,
                       outcome |-> outcome, sent |-> res.sent,
                       resp |-> res.resp, err |-> res.err, req |-> res.req]
    /\ lastOp' = [op |-> "UploadVideo", b |-> "none"]
    /\ config' = [config EXCEPT !.MaxRetries = transportCalls']
    /\ UNCHANGED <<qvars, svars, mu, caller, written, client>>

\* One call of UploadVideo.
UploadVideo(videoId, options) ==
    /\ transportCalls <= MaxTransport
    /\ \E pre \in {uploadVideoRequest(videoId, options)} :
       \E outcome \in OutcomesOf(pre) :
       \E res \in {dispatch(pre, outcome)} :
           /\ transportCalls + res.sent <= MaxTransport
           /\ transportCalls' = transportCalls + res.sent
           /\ call' = [op |-> "UploadVideo", arg |-> videoId, options |-> options,
                       outcome |-> outcome, sent |-> res.sent,
                       resp |-> res.resp, err |-> res.err, req |-> res.req]
    /\ lastOp' = [op |-> "UploadVideo", b |-> "none"]
    /\ UNCHANGED <<qvars, svars, kvars>>

(***************************************************************************)
(* Playback and signed URL generators                                      *)
(***************************************************************************)

\* strings.TrimRight(s, cutset)
RECURSIVE TrimRight(_, _)
TrimRight(s, cutset) ==
    IF s # <<>> /\ s[Len(s)] \in cutset
    THEN TrimRight(SubSeq(s, 1, Len(s) - 1), cutset)
    ELSE s

\* Mutant of cdnBase: a missing hostname is not refused.
cdnBase_noCheck(videoID) ==
    [base |-> <<"h", "t", "t", "p", "s", ":", "/", "/">> \o TrimRight(config.CDNHostname, {"/"}) \o <<"/">> \o videoID,
     err |-> NilError]

\* Mutant of cdnBase: the hostname is used as it is configured.
cdnBase_noTrim(videoID) ==
    IF config.CDNHostname = <<>>
    THEN [base |-> <<>>, err |-> Sentinel("ErrCDNHostnameRequired")]
    ELSE [base |-> <<"h", "t", "t", "p", "s", ":", "/", "/">> \o config.CDNHostname \o <<"/">> \o videoID,
          err |-> NilError]

\* cdnBase: the base URL of a video on the CDN, or the error.
cdnBase(videoID) ==
    IF config.CDNHostname = <<>>
    THEN [base |-> <<>>, err |-> Sentinel("ErrCDNHostnameRequired")]
    ELSE [base |-> <<"h", "t", "t", "p", "s", ":", "/", "/">> \o TrimRight(config.CDNHostname, {"/"})
                       \o <<"/">> \o videoID,
          err |-> NilError]

\* hex.EncodeToString of a digest; it is identified by the digest.
HexEncode(digest) == [hex |-> digest]

\* The text of a token inside a URL. Its characters are letters, digits,
\* "-" and "_", which no escaping changes; the text is carried as one
\* symbol that stands for them.
TokenText(token) == <<ToString(token)>>

\* Mutant of embedToken: the video ID is left out of the hashed string.
embedToken_noVideoID(key, videoID, expiry) ==
    HexEncode(Sha256(key \o FormatInt(expiry)))

\* Mutant of embedToken: the hashed expiry is one second later.
embedToken_laterExpiry(key, videoID, expiry) ==
    HexEncode(Sha256(key \o videoID \o FormatInt(expiry + 1)))

\* The token of SignedEmbedURL.
embedToken(key, videoID, expiry) ==
    HexEncode(Sha256(key \o videoID \o FormatInt(expiry)))

\* The functional options and their application to a zero SignedURLOptions,
\* in the order in which they are passed.
WithUserIP(ip) == [field |-> "UserIP", value |-> ip]
WithCountriesAllowed(countries) == [field |-> "CountriesAllowed", value |-> countries]
WithCountriesBlocked(countries) == [field |-> "CountriesBlocked", value |-> countries]

\* Mutant of applyOptions: the options passed are not applied.
applyOptions_none(opts) ==
    [UserIP |-> <<>>, CountriesAllowed |-> <<>>, CountriesBlocked |-> <<>>]

\* Mutant of applyOptions: the first option that names a field wins.
RECURSIVE applyOptions_firstWins(_)
applyOptions_firstWins(opts) ==
    IF opts = <<>>
    THEN [UserIP |-> <<>>, CountriesAllowed |-> <<>>, CountriesBlocked |-> <<>>]
    ELSE LET o == opts[1]
         IN  [applyOptions_firstWins(Tail(opts)) EXCEPT ![o.field] = o.value]

RECURSIVE applyOptions(_)
applyOptions(opts) ==
    IF opts = <<>>
    THEN [UserIP |-> <<>>, CountriesAllowed |-> <<>>, CountriesBlocked |-> <<>>]
    ELSE LET o == opts[Len(opts)]
         IN  [applyOptions(SubSeq(opts, 1, Len(opts) - 1)) EXCEPT ![o.field] = o.value]

\* What a generator returned, and what it handed to the signer on the way.
NotSigned == [kind |-> "none"]
Returned(op, args, url, err, signed) ==
    [op |-> op, args |-> args, url |-> url, err |-> err, signed |-> signed]

\* ---- the inputs the generator actions draw from ----

\* video IDs "", " ", "v1", "v2"; resolutions "", "720p"; ttl of 1 and 9
\* seconds
PlayVideoIDs == {<<>>, <<" ">>, <<"v", "1">>, <<"v", "2">>}
Resolutions == {<<>>, <<"7", "2", "0", "p">>}
TTLs == {1, 9}
OptionLists ==
    {<<>>,
     <<WithUserIP(<<"1">>)>>,
     <<WithCountriesAllowed(<<"U", "S", ",", "G", "B">>)>>,
     <<WithCountriesBlocked(<<"C", "N">>)>>,
     <<WithCountriesAllowed(<<>>)>>,
     <<WithCountriesAllowed(<<"U", "S", ",", "G", "B">>), WithCountriesBlocked(<<"C", "N">>)>>,
     <<WithUserIP(<<"1">>), WithUserIP(<<"2">>)>>}

\* ---- the generators ----

EmbedURL(videoID) ==
    /\ client # NilClient
    /\ call' =
         IF TrimSpace(videoID) = <<>>
         THEN Returned("EmbedURL", [videoID |-> videoID], <<>>,
                       Sentinel("ErrVideoIDRequired"), NotSigned)
         ELSE Returned("EmbedURL", [videoID |-> videoID],
                       <<"h", "t", "t", "p", "s", ":", "/", "/", "i", "f", "r", "a", "m", "e", ".", "m", "e", "d", "i", "a", "d", "e", "l", "i", "v", "e", "r", "y", ".", "n", "e", "t", "/", "e", "m", "b", "e", "d", "/">>
                           \o client.libraryID \o <<"/">> \o videoID,
                       NilError, NotSigned)
    /\ lastOp' = [op |-> "EmbedURL", b |-> "none"]
    /\ UNCHANGED <<transportCalls, qvars, svars, kvars>>

DirectPlayURL(videoID) ==
    /\ client # NilClient
    /\ call' =
         IF TrimSpace(videoID) = <<>>
         THEN Returned("DirectPlayURL", [videoID |-> videoID], <<>>,
                       Sentinel("ErrVideoIDRequired"), NotSigned)
         ELSE Returned("DirectPlayURL", [videoID |-> videoID],
                       <<"h", "t", "t", "p", "s", ":", "/", "/", "v", "i", "d", "e", "o", ".", "b", "u", "n", "n", "y", "c", "d", "n", ".", "c", "o", "m", "/", "p", "l", "a", "y", "/">>
                           \o client.libraryID \o <<"/">> \o videoID,
                       NilError, NotSigned)
    /\ lastOp' = [op |-> "DirectPlayURL", b |-> "none"]
    /\ UNCHANGED <<transportCalls, qvars, svars, kvars>>

\* The body shared by HLSPlaylistURL, ThumbnailURL and PreviewAnimationURL:
\* the video ID is checked, then cdnBase is asked, then the file name is
\* appended.
cdnFileURL(op, videoID, file) ==
    IF TrimSpace(videoID) = <<>>
    THEN Returned(op, [videoID |-> videoID], <<>>,
                  Sentinel("ErrVideoIDRequired"), NotSigned)
    ELSE IF cdnBase(videoID).err # NilError
    THEN Returned(op, [videoID |-> videoID], <<>>, cdnBase(videoID).err, NotSigned)
    ELSE Returned(op, [videoID |-> videoID], cdnBase(videoID).base \o file,
                  NilError, NotSigned)

HLSPlaylistURL(videoID) ==
    /\ client # NilClient
    /\ call' = cdnFileURL("HLSPlaylistURL", videoID, <<"/", "p", "l", "a", "y", "l", "i", "s", "t", ".", "m", "3", "u", "8">>)
    /\ lastOp' = [op |-> "HLSPlaylistURL", b |-> "none"]
    /\ UNCHANGED <<transportCalls, qvars, svars, kvars>>

ThumbnailURL(videoID) ==
    /\ client # NilClient
    /\ call' = cdnFileURL("ThumbnailURL", videoID, <<"/", "t", "h", "u", "m", "b", "n", "a", "i", "l", ".", "j", "p", "g">>)
    /\ lastOp' = [op |-> "ThumbnailURL", b |-> "none"]
    /\ UNCHANGED <<transportCalls, qvars, svars, kvars>>

PreviewAnimationURL(videoID) ==
    /\ client # NilClient
    /\ call' = cdnFileURL("PreviewAnimationURL", videoID, <<"/", "p", "r", "e", "v", "i", "e", "w", ".", "w", "e", "b", "p">>)
    /\ lastOp' = [op |-> "PreviewAnimationURL", b |-> "none"]
    /\ UNCHANGED <<transportCalls, qvars, svars, kvars>>

MP4URL(videoID, r) ==
    /\ client # NilClient
    /\ call' =
         LET args == [videoID |-> videoID, r |-> r]
         IN  IF TrimSpace(videoID) = <<>>
             THEN Returned("MP4URL", args, <<>>, Sentinel("ErrVideoIDRequired"), NotSigned)
             ELSE IF r = <<>>
             THEN Returned("MP4URL", args, <<>>, Sentinel("ErrResolutionRequired"),
                           NotSigned)
             ELSE IF cdnBase(videoID).err # NilError
             THEN Returned("MP4URL", args, <<>>, cdnBase(videoID).err, NotSigned)
             ELSE Returned("MP4URL", args,
                           cdnBase(videoID).base \o <<"/", "p", "l", "a", "y", "_">> \o r \o <<".", "m", "p", "4">>,
                           NilError, NotSigned)
    /\ lastOp' = [op |-> "MP4URL", b |-> "none"]
    /\ UNCHANGED <<transportCalls, qvars, svars, kvars>>

SignedEmbedURL(videoID, ttl) ==
    /\ client # NilClient
    /\ call' =
         LET args   == [videoID |-> videoID, ttl |-> ttl]
             expiry == now + ttl
             token  == embedToken(config.EmbedTokenKey, videoID, expiry)
             base   == <<"h", "t", "t", "p", "s", ":", "/", "/", "i", "f", "r", "a", "m", "e", ".", "m", "e", "d", "i", "a", "d", "e", "l", "i", "v", "e", "r", "y", ".", "n", "e", "t", "/", "e", "m", "b", "e", "d", "/">>
                           \o client.libraryID \o <<"/">> \o videoID
         IN  IF TrimSpace(videoID) = <<>>
             THEN Returned("SignedEmbedURL", args, <<>>,
                           Sentinel("ErrVideoIDRequired"), NotSigned)
             ELSE IF config.EmbedTokenKey = <<>>
             THEN Returned("SignedEmbedURL", args, <<>>,
                           Sentinel("ErrEmbedTokenKeyRequired"), NotSigned)
             ELSE Returned("SignedEmbedURL", args,
                           base \o <<"?", "t", "o", "k", "e", "n", "=">> \o TokenText(token)
                                \o <<"&", "e", "x", "p", "i", "r", "e", "s", "=">> \o FormatInt(expiry),
                           NilError,
                           [kind |-> "embed", key |-> config.EmbedTokenKey,
                            videoID |-> videoID, expiry |-> expiry, token |-> token])
    /\ lastOp' = [op |-> "SignedEmbedURL", b |-> "none"]
    /\ UNCHANGED <<transportCalls, qvars, svars, kvars>>

SignedHLSURL(videoID, ttl, opts) ==
    /\ client # NilClient
    /\ \E options \in {applyOptions(opts)} :
       \E order \in RangeOrders(cdnExtraParams(options)) :
         call' =
           LET args     == [videoID |-> videoID, ttl |-> ttl, opts |-> opts]
               dirPath  == <<"/">> \o videoID \o <<"/">>
               filePath == <<"/">> \o videoID \o <<"/", "p", "l", "a", "y", "l", "i", "s", "t", ".", "m", "3", "u", "8">>
               expiry   == now + ttl
               token    == signCDNToken(config.CDNTokenKey, dirPath, expiry, options, order)
               host     == TrimRight(config.CDNHostname, {"/"})
           IN  IF TrimSpace(videoID) = <<>>
               THEN Returned("SignedHLSURL", args, <<>>,
                             Sentinel("ErrVideoIDRequired"), NotSigned)
               ELSE IF config.CDNHostname = <<>>
               THEN Returned("SignedHLSURL", args, <<>>,
                             Sentinel("ErrCDNHostnameRequired"), NotSigned)
               ELSE IF config.CDNTokenKey = <<>>
               THEN Returned("SignedHLSURL", args, <<>>,
                             Sentinel("ErrCDNTokenKeyRequired"), NotSigned)
               ELSE Returned("SignedHLSURL", args,
                             <<"h", "t", "t", "p", "s", ":", "/", "/">> \o host \o <<"/", "b", "c", "d", "n", "_", "t", "o", "k", "e", "n", "=">> \o TokenText(token)
                                 \o <<"&", "e", "x", "p", "i", "r", "e", "s", "=">> \o FormatInt(expiry)
                                 \o <<"&", "t", "o", "k", "e", "n", "_", "p", "a", "t", "h", "=">> \o QueryEscape(dirPath) \o filePath,
                             NilError,
                             [kind |-> "cdn", key |-> config.CDNTokenKey,
                              path |-> dirPath, expiry |-> expiry,
                              options |-> options, token |-> token])
    /\ lastOp' = [op |-> "SignedHLSURL", b |-> "none"]
    /\ UNCHANGED <<transportCalls, qvars, svars, kvars>>

SignedMP4URL(videoID, r, ttl, opts) ==
    /\ client # NilClient
    /\ \E options \in {applyOptions(opts)} :
       \E order \in RangeOrders(cdnExtraParams(options)) :
         call' =
           LET args     == [videoID |-> videoID, r |-> r, ttl |-> ttl, opts |-> opts]
               filePath == <<"/">> \o videoID \o <<"/", "p", "l", "a", "y", "_">> \o r \o <<".", "m", "p", "4">>
               expiry   == now + ttl
               token    == signCDNToken(config.CDNTokenKey, filePath, expiry, options,
                                        order)
               host     == TrimRight(config.CDNHostname, {"/"})
               base     == <<"h", "t", "t", "p", "s", ":", "/", "/">> \o host \o filePath
               p1       == ValuesSet(EmptyValues, <<"t", "o", "k", "e", "n">>, TokenText(token))
               p2       == ValuesSet(p1, <<"e", "x", "p", "i", "r", "e", "s">>, FormatInt(expiry))
               p3       == IF options.CountriesAllowed # <<>>
                           THEN ValuesSet(p2, kTokenCountries, options.CountriesAllowed)
                           ELSE p2
               params   == IF options.CountriesBlocked # <<>>
                           THEN ValuesSet(p3, kTokenCountriesBlocked,
                                          options.CountriesBlocked)
                           ELSE p3
           IN  IF TrimSpace(videoID) = <<>>
               THEN Returned("SignedMP4URL", args, <<>>,
                             Sentinel("ErrVideoIDRequired"), NotSigned)
               ELSE IF r = <<>>
               THEN Returned("SignedMP4URL", args, <<>>,
                             Sentinel("ErrResolutionRequired"), NotSigned)
               ELSE IF config.CDNHostname = <<>>
               THEN Returned("SignedMP4URL", args, <<>>,
                             Sentinel("ErrCDNHostnameRequired"), NotSigned)
               ELSE IF config.CDNTokenKey = <<>>
               THEN Returned("SignedMP4URL", args, <<>>,
                             Sentinel("ErrCDNTokenKeyRequired"), NotSigned)
               ELSE Returned("SignedMP4URL", args,
                             base \o <<"?">> \o Encode(params),
                             NilError,
                             [kind |-> "cdn", key |-> config.CDNTokenKey,
                              path |-> filePath, expiry |-> expiry,
                              options |-> options, token |-> token])
    /\ lastOp' = [op |-> "SignedMP4URL", b |-> "none"]
    /\ UNCHANGED <<transportCalls, qvars, svars, kvars>>

(***************************************************************************)
(* Specifications                                                          *)
(***************************************************************************)

\* The signer and the client are idle while the builder is exercised; no
\* client has been constructed.
SignerIdle == InitSigner
ClientIdle ==
    /\ InitClient
    /\ InitConfig({CHOOSE cfg \in ClientConfigs : cfg.MaxRetries = 0})

InitQ == InitQuery({"q1"}) /\ SignerIdle /\ ClientIdle

NextQ ==
    \/ \E b \in Builders : BuildQuery(b)
    \/ \E b \in Builders, key \in Keys, v \in BoolInputs : SetBool(b, key, v)
    \/ \E b \in Builders, key \in Keys, v \in StringInputs : SetString(b, key, v)
    \/ \E b \in Builders, key \in Keys, v \in StringsInputs : SetStrings(b, key, v)
    \/ \E b \in Builders : Apply(b)

SpecQuery == InitQ /\ [][NextQ]_vars

\* Two builders on the one request, which carries no query or lang=fr;
\* the builders are created, written with setString and applied in any
\* order.
InitQ2 ==
    /\ InitQuery({"q1", "q2"}) /\ SignerIdle /\ ClientIdle
    /\ reqRawQuery \in {<<>>, <<"l", "a", "n", "g", "=", "f", "r">>}

NextQ2 ==
    \/ \E b \in Builders : BuildQuery(b)
    \/ \E b \in Builders, key \in Keys, v \in StringInputs : SetString(b, key, v)
    \/ \E b \in Builders : Apply(b)

SpecQuery2 == InitQ2 /\ [][NextQ2]_vars

\* The builder and the client are idle while the signer is exercised.
QueryIdle ==
    /\ reqRawQuery = <<>>
    /\ builder = EmptyValues
    /\ hist = EmptyValues
    /\ lastOp = NoOp

InitS == InitSigner /\ QueryIdle /\ ClientIdle

NextS ==
    \/ Tick
    \/ \E i \in {1, 2}, key \in SecretKeys, path \in Paths, expiry \in Expiries,
          opts \in SignedURLOptions : SignCDNToken(i, key, path, expiry, opts)

SpecSign == InitS /\ [][NextS]_vars

\* The encoding of a digest as a token, on its own.
InitT ==
    /\ now = 0 /\ sig = [i \in {1, 2} |-> [done |-> FALSE]] /\ InitEncode
    /\ QueryIdle /\ ClientIdle

NextT == EncodeToken

SpecToken == InitT /\ [][NextT]_vars

\* The client core: the operations that reach the transport, called on a
\* constructed client; the builder variables and the signer are idle.
Init ==
    /\ InitClient /\ QueryIdle /\ SignerIdle
    /\ \E cfg \in ClientConfigs : Constructed(cfg)

Next ==
    \/ \E title \in Titles, options \in VideoOptionSets :
          CreateVideoObject(title, options)
    \/ \E videoId \in VideoIDs, options \in UploadOptionSets :
          UploadVideo(videoId, options)

Spec == Init /\ [][Next]_vars

\* NewClient called by every caller on the shared Config.
InitK == InitClient /\ QueryIdle /\ SignerIdle /\ InitConfig(Configs)

NextK ==
    \/ \E g \in Callers, nilCfg \in BOOLEAN : NewClientValidate(g, nilCfg)
    \/ \E g \in Callers : ConfigLock(g)
    \/ \E g \in Callers : ConfigTest(g)
    \/ \E g \in Callers : ConfigWrite(g)
    \/ \E g \in Callers : ConfigUnlock(g)
    \/ \E g \in Callers : NewClientCopyHTTPClient(g)
    \/ \E g \in Callers : NewClientCopyRest(g)

SpecConfig == InitK /\ [][NextK]_vars

\* The URL generators, called on a constructed client while time passes.
InitU ==
    /\ InitClient /\ QueryIdle /\ SignerIdle
    /\ \E cfg \in URLConfigs : Constructed(cfg)

Generate ==
    \/ \E videoID \in PlayVideoIDs : EmbedURL(videoID)
    \/ \E videoID \in PlayVideoIDs : DirectPlayURL(videoID)
    \/ \E videoID \in PlayVideoIDs : HLSPlaylistURL(videoID)
    \/ \E videoID \in PlayVideoIDs : ThumbnailURL(videoID)
    \/ \E videoID \in PlayVideoIDs : PreviewAnimationURL(videoID)
    \/ \E videoID \in PlayVideoIDs, r \in Resolutions : MP4URL(videoID, r)
    \/ \E videoID \in PlayVideoIDs, ttl \in TTLs : SignedEmbedURL(videoID, ttl)
    \/ \E videoID \in PlayVideoIDs, ttl \in TTLs, opts \in OptionLists :
          SignedHLSURL(videoID, ttl, opts)
    \/ \E videoID \in PlayVideoIDs, r \in Resolutions, ttl \in TTLs,
          opts \in OptionLists : SignedMP4URL(videoID, r, ttl, opts)

NextU == Tick \/ Generate

SpecURL == InitU /\ [][NextU]_vars

\* Every operation of a constructed client.
NextO == Next \/ Generate

SpecOps == Init /\ [][NextO]_vars

(***************************************************************************)
(* Claims about the client core, checked under Spec                        *)
(***************************************************************************)

\* Empty or made of white space only.
Blank(str) == \A i \in DOMAIN str : str[i] \in WhiteSpace

\* C1 as stated: CreateVideoObject with a blank title returns
\* ErrTitleRequired, UploadVideo with a blank video ID returns
\* ErrVideoIDRequired, and neither invokes the transport.
BlankInputShortCircuits ==
    /\ call.op = "CreateVideoObject" /\ Blank(call.arg)
           => call.err = Sentinel("ErrTitleRequired") /\ call.sent = 0
    /\ call.op = "UploadVideo" /\ Blank(call.arg)
           => call.err = Sentinel("ErrVideoIDRequired") /\ call.sent = 0

SuccessCodes == {200, 201, 202, 204}

\* The sentinel the mapping table gives for a status code.
SentinelFor ==
    (401 :> "ErrUnauthorized") @@ (403 :> "ErrForbidden") @@
    (404 :> "ErrVideoNotFound") @@ (429 :> "ErrRateLimited") @@
    (500 :> "ErrInternalServer") @@ (503 :> "ErrServiceUnavailable")

\* C2: whatever status code the transport returns, the call's error is nil
\* for 200, 201, 202 and 204 and for no other code, the sentinel of the
\* table for 401, 403, 404, 429, 500 and 503, and for 400 and every other
\* code an APIError that carries the code.
StatusClassification ==
    call.op # "none" /\ call.sent = 1 /\ call.outcome.kind = "response" =>
        LET code == call.outcome.status
        IN  /\ (call.err = NilError) <=> (code \in SuccessCodes)
            /\ code \in DOMAIN SentinelFor => call.err = Sentinel(SentinelFor[code])
            /\ code \notin SuccessCodes \cup DOMAIN SentinelFor =>
                   call.err.kind = "APIError" /\ call.err.StatusCode = code

\* C2 witness: a call was answered with the unlisted code 418 and returned
\* an APIError.
AnsweredWithUnknownStatus ==
    /\ call.op # "none" /\ call.sent = 1 /\ call.outcome.kind = "response"
    /\ call.outcome.status = 418
    /\ call.err.kind = "APIError"

(***************************************************************************)
(* Claims about the query parameter builder, checked under SpecQuery       *)
(***************************************************************************)

\* The state right after builder b was applied.
AfterApply(b) == lastOp.op = "apply" /\ lastOp.b = b

\* An absent input: a nil pointer, an empty or whitespace-only string, an
\* empty (or nil) list.
AbsentInput(c) ==
    \/ c.op = "setBool" /\ c.arg = <<>>
    \/ c.op = "setString" /\ \A i \in DOMAIN c.arg : c.arg[i] \in {" ", "\t"}
    \/ c.op = "setStrings" /\ c.arg = <<>>

\* The value a call with a present input is documented to write.
ExpectedValue(c) ==
    IF c.op = "setBool"
    THEN (IF c.arg[1] THEN <<"t", "r", "u", "e">> ELSE <<"f", "a", "l", "s", "e">>)
    ELSE IF c.op = "setString" THEN c.arg
    ELSE Join(c.arg, <<",">>)

\* The calls of a chain that carry a value for key k, and the keys written.
WritingCalls(calls, k) ==
    {i \in DOMAIN calls : calls[i].key = k /\ ~AbsentInput(calls[i])}

WrittenKeys(calls) == {k \in Keys : WritingCalls(calls, k) # {}}

LastWritten(calls, k) ==
    LET last == CHOOSE i \in WritingCalls(calls, k) :
                    \A j \in WritingCalls(calls, k) : j <= i
    IN  ExpectedValue(calls[last])

\* C6: a setter call (and the creation of the builder) leaves the request's
\* query string as it was: only apply writes it.
SettersLeaveRequestAlone ==
    [][lastOp'.op \in SetterOps \cup {"buildQuery"} => reqRawQuery' = reqRawQuery]_vars

\* C6 witness: a setter has changed the builder's parameter set, which now
\* differs from what the request's query string holds.
SetterActedBeforeApply ==
    \E b \in Builders :
        /\ lastOp.op \in SetterOps /\ lastOp.b = b
        /\ WrittenKeys(hist[b].calls) # {}
        /\ builder[b].values # Query(reqRawQuery)

\* The pairs <<key, value>> a query string holds, as written in it.
RECURSIVE RawParams(_)
RawParams(query) ==
    IF query = <<>> THEN {}
    ELSE LET seg == CutBefore(query, "&")
         IN  (IF seg = <<>> THEN {} ELSE {<<CutBefore(seg, "="), CutAfter(seg, "=")>>})
                 \cup RawParams(CutAfter(query, "&"))

\* Two written pairs are the same parameter when they are the same text or
\* unescape to the same key and value.
SameParam(p, r) ==
    \/ p = r
    \/ /\ \A x \in {p[1], p[2], r[1], r[2]} : UnescapeOk(x)
       /\ QueryUnescape(p[1]) = QueryUnescape(r[1])
       /\ QueryUnescape(p[2]) = QueryUnescape(r[2])

\* The written pair is of a key that the chain wrote.
OfWrittenKey(p, calls) ==
    UnescapeOk(p[1]) /\ QueryUnescape(p[1]) \in WrittenKeys(calls)

\* C7 as stated: after apply every key written through the builder holds
\* the written value, and every other parameter that was in the request's
\* query string is still present with its original value.
ApplyKeepsEveryParameter ==
    \A b \in Builders :
        AfterApply(b) =>
            LET q     == Query(reqRawQuery)
                calls == hist[b].calls
            IN  /\ \A k \in WrittenKeys(calls) :
                       k \in DOMAIN q /\ q[k] = <<LastWritten(calls, k)>>
                /\ \A p \in RawParams(hist[b].baseRaw) :
                       ~OfWrittenKey(p, calls) =>
                           \E r \in RawParams(reqRawQuery) : SameParam(p, r)

\* C7 amended: after apply every key written through the builder holds
\* exactly the written value, and every other parameter that URL.Query reads
\* from the query string the builder was created on (every pair without a
\* bad escape and without a semicolon) is still there with its original
\* values.
ApplyOverwritesAndPreserves ==
    \A b \in Builders :
        AfterApply(b) =>
            LET q     == Query(reqRawQuery)
                base  == Query(hist[b].baseRaw)
                calls == hist[b].calls
            IN  /\ \A k \in WrittenKeys(calls) :
                       k \in DOMAIN q /\ q[k] = <<LastWritten(calls, k)>>
                /\ \A k \in DOMAIN base \ WrittenKeys(calls) :
                       k \in DOMAIN q /\ q[k] = base[k]

\* C7 witness: applied with one written key that replaced an existing value
\* and another existing parameter that was not written.
AppliedOverExistingQuery ==
    \E b \in Builders :
        /\ AfterApply(b)
        /\ WrittenKeys(hist[b].calls) \cap DOMAIN Query(hist[b].baseRaw) # {}
        /\ DOMAIN Query(hist[b].baseRaw) \ WrittenKeys(hist[b].calls) # {}

\* C8: applying twice or more with no setter call in between gives the query
\* string the first apply gave, and apply duplicates no key: a written key
\* occurs once, any other key as often as in the builder's parameter set.
ApplyIsIdempotent ==
    \A b \in Builders :
        /\ \A i \in DOMAIN hist[b].applyOut : hist[b].applyOut[i] = hist[b].applyOut[1]
        /\ AfterApply(b) =>
               LET q == Query(reqRawQuery)
               IN  /\ reqRawQuery = hist[b].applyOut[1]
                   /\ \A k \in WrittenKeys(hist[b].calls) : Len(q[k]) = 1
                   /\ \A k \in DOMAIN q : Len(q[k]) = Len(builder[b].values[k])

\* C8 witness: a builder with a written key was applied twice in a row.
AppliedTwice ==
    \E b \in Builders :
        /\ AfterApply(b)
        /\ Len(hist[b].applyOut) >= 2
        /\ WrittenKeys(hist[b].calls) # {}

\* C9 as stated: after apply, the key of every call with an absent input is
\* absent from the request's query string.
AbsentInputKeyIsAbsent ==
    \A b \in Builders :
        AfterApply(b) =>
            \A i \in DOMAIN hist[b].calls :
                AbsentInput(hist[b].calls[i]) =>
                    hist[b].calls[i].key \notin DOMAIN Query(reqRawQuery)

\* C9 amended: a call with an absent input neither adds its key nor changes
\* it. After apply the key is absent unless another call of the chain wrote
\* it or the query string the builder was created on held it, and then it
\* has that value.
AbsentInputWritesNothing ==
    \A b \in Builders :
        AfterApply(b) =>
            LET q     == Query(reqRawQuery)
                base  == Query(hist[b].baseRaw)
                calls == hist[b].calls
            IN  \A i \in DOMAIN calls :
                    AbsentInput(calls[i]) =>
                        LET k == calls[i].key
                        IN  IF k \in WrittenKeys(calls)
                            THEN k \in DOMAIN q /\ q[k] = <<LastWritten(calls, k)>>
                            ELSE IF k \in DOMAIN base
                            THEN k \in DOMAIN q /\ q[k] = base[k]
                            ELSE k \notin DOMAIN q

\* C9 witness: applied after a call with an absent input whose key is absent
\* from the final query string.
AbsentInputApplied ==
    \E b \in Builders :
        /\ AfterApply(b)
        /\ \E i \in DOMAIN hist[b].calls :
               /\ AbsentInput(hist[b].calls[i])
               /\ hist[b].calls[i].key \notin DOMAIN Query(reqRawQuery)

\* One recorded call replayed on a parameter set.
ReplayCall(values, c) ==
    IF c.op = "setBool" THEN setBool(values, c.key, c.arg)
    ELSE IF c.op = "setString" THEN setString(values, c.key, c.arg)
    ELSE setStrings(values, c.key, c.arg)

RECURSIVE ReplayCalls(_, _)
ReplayCalls(values, calls) ==
    IF calls = <<>> THEN values
    ELSE ReplayCalls(ReplayCall(values, Head(calls)), Tail(calls))

DisjointKeys(calls) ==
    \A i, j \in DOMAIN calls : i # j => calls[i].key # calls[j].key

\* C10: when the calls of the chain target pairwise different keys, every
\* order of the same calls commits the same query string; and a key written
\* by several calls holds the value of the last call that wrote it.
ChainOrderIrrelevantLastWins ==
    \A b \in Builders :
        AfterApply(b) =>
            LET calls == hist[b].calls
                n     == Len(calls)
            IN  /\ DisjointKeys(calls) =>
                       \A p \in Permutations(1..n) :
                           apply(ReplayCalls(buildQuery(hist[b].baseRaw),
                                             [i \in 1..n |-> calls[p[i]]])) = reqRawQuery
                /\ \A k \in Keys :
                       Cardinality(WritingCalls(calls, k)) >= 2 =>
                           ValuesGet(Query(reqRawQuery), k) = LastWritten(calls, k)

\* C10 witness: applied after two calls that wrote two different keys.
TwoKeysChained ==
    \E b \in Builders :
        /\ AfterApply(b)
        /\ DisjointKeys(hist[b].calls)
        /\ Cardinality(WrittenKeys(hist[b].calls)) >= 2

(***************************************************************************)
(* Claims about the signer, checked under SpecSign                         *)
(***************************************************************************)

BothSigned == sig[1].done /\ sig[2].done

\* The inputs of a recorded call, field by field.
SignInput(i) ==
    <<sig[i].key, sig[i].path, sig[i].expiry,
      sig[i].opts.UserIP, sig[i].opts.CountriesAllowed, sig[i].opts.CountriesBlocked>>

\* The fields (1 key, 2 path, 3 expiry, 4 user IP, 5 allowed, 6 blocked) in
\* which the two recorded calls differ.
DifferingFields == {f \in 1..6 : SignInput(1)[f] # SignInput(2)[f]}

\* The segments of a recorded call joined as documented: key, path, decimal
\* expiry, user IP and the "key=value" pairs in ascending key order.
SignedString(i) ==
    LET extraParams == cdnExtraParams(sig[i].opts)
        keys  == SortStrings(DOMAIN extraParams)
        pairs == [j \in 1..Len(keys) |->
                     keys[j] \o <<"=">> \o ValuesGet(extraParams, keys[j])]
    IN  sig[i].key \o sig[i].path \o FormatInt(sig[i].expiry)
            \o sig[i].opts.UserIP \o Join(pairs, <<"&">>)

\* C3 as stated: two calls whose inputs differ in key, path, expiry or
\* restriction set return different tokens.
DifferentInputsDifferentTokens ==
    BothSigned /\ SignInput(1) # SignInput(2) => sig[1].token # sig[2].token

\* C3 amended: two calls whose inputs differ in exactly one of key, path,
\* expiry, user IP, allowed countries, blocked countries return different
\* tokens, and two calls return the same token only when the strings built
\* from their inputs by concatenation are the same.
OneFieldChangesToken ==
    BothSigned =>
        /\ Cardinality(DifferingFields) = 1 => sig[1].token # sig[2].token
        /\ sig[1].token = sig[2].token => SignedString(1) = SignedString(2)

\* C3 witness: two calls that differ in the user IP alone.
SignedWithOtherUserIP == BothSigned /\ DifferingFields = {4}

\* C4: two calls that differ in exactly one of key, path and expiry, and in
\* nothing else, return different tokens.
KeyPathExpiryChangeToken ==
    BothSigned /\ Cardinality(DifferingFields) = 1 /\ DifferingFields \subseteq {1, 2, 3}
        => sig[1].token # sig[2].token

\* C4 witness: two calls that differ in the expiry alone.
SignedWithOtherExpiry == BothSigned /\ DifferingFields = {3}

\* C5: two calls with the same inputs return the same token, whenever they
\* are made and in whatever order the map of extra parameters is iterated.
SignIsDeterministic ==
    BothSigned /\ SignInput(1) = SignInput(2) => sig[1].token = sig[2].token

\* C5 witness: the same inputs, with both country lists set, signed at two
\* different times.
SignedTwiceAtDifferentTimes ==
    /\ BothSigned /\ SignInput(1) = SignInput(2) /\ sig[1].at # sig[2].at
    /\ sig[1].opts.CountriesAllowed # <<>> /\ sig[1].opts.CountriesBlocked # <<>>

(***************************************************************************)
(* Claims about the URL generators, checked under SpecURL                  *)
(***************************************************************************)

PlaybackOps ==
    {"EmbedURL", "DirectPlayURL", "HLSPlaylistURL", "ThumbnailURL",
     "PreviewAnimationURL", "MP4URL"}
SignedOps == {"SignedEmbedURL", "SignedHLSURL", "SignedMP4URL"}
CDNOps ==
    {"HLSPlaylistURL", "ThumbnailURL", "PreviewAnimationURL", "MP4URL",
     "SignedHLSURL", "SignedMP4URL"}
GeneratorCalled == call.op \in PlaybackOps \cup SignedOps
Succeeded(op) == call.op = op /\ call.err = NilError

\* The first precondition of the call that is missing, in the order video
\* ID, resolution, CDN hostname, embed token key, CDN token key.
MissingPrecondition ==
    IF Blank(call.args.videoID) THEN Sentinel("ErrVideoIDRequired")
    ELSE IF call.op \in {"MP4URL", "SignedMP4URL"} /\ call.args.r = <<>>
    THEN Sentinel("ErrResolutionRequired")
    ELSE IF call.op \in CDNOps /\ config.CDNHostname = <<>>
    THEN Sentinel("ErrCDNHostnameRequired")
    ELSE IF call.op = "SignedEmbedURL" /\ config.EmbedTokenKey = <<>>
    THEN Sentinel("ErrEmbedTokenKeyRequired")
    ELSE IF call.op \in {"SignedHLSURL", "SignedMP4URL"} /\ config.CDNTokenKey = <<>>
    THEN Sentinel("ErrCDNTokenKeyRequired")
    ELSE NilError

\* C11: every URL generator returns the error of the first missing
\* precondition, in the order video ID, resolution, CDN hostname, embed
\* token key, CDN token key, and then returns no URL and has signed
\* nothing; it returns no error when none is missing; and whatever was
\* signed was signed with a non-empty key.
PreconditionsFailFirst ==
    GeneratorCalled =>
        /\ call.err = MissingPrecondition
        /\ call.err # NilError => call.url = <<>> /\ call.signed = NotSigned
        /\ call.signed # NotSigned => call.signed.key # <<>>

\* C11 witness: SignedMP4URL was called with a video ID but without a
\* resolution on a client that has neither a CDN hostname nor a CDN token
\* key, and returned the resolution error.
SeveralPreconditionsMissing ==
    /\ call.op = "SignedMP4URL"
    /\ ~Blank(call.args.videoID)
    /\ call.args.r = <<>>
    /\ config.CDNHostname = <<>>
    /\ config.CDNTokenKey = <<>>
    /\ call.err = Sentinel("ErrResolutionRequired")

\* The configured hostname up to its last character that is not a slash.
CdnHost ==
    LET h == config.CDNHostname
        keep == {n \in 0..Len(h) : \A i \in (n + 1)..Len(h) : h[i] = "/"}
    IN  SubSeq(h, 1, CHOOSE n \in keep : \A m \in keep : n <= m)

\* The file each CDN playback generator names.
CdnFile ==
    CASE call.op = "HLSPlaylistURL" -> <<"p", "l", "a", "y", "l", "i", "s", "t", ".", "m", "3", "u", "8">>
      [] call.op = "ThumbnailURL" -> <<"t", "h", "u", "m", "b", "n", "a", "i", "l", ".", "j", "p", "g">>
      [] call.op = "PreviewAnimationURL" -> <<"p", "r", "e", "v", "i", "e", "w", ".", "w", "e", "b", "p">>
      [] call.op = "MP4URL" -> <<"p", "l", "a", "y", "_">> \o call.args.r \o <<".", "m", "p", "4">>

Scheme == <<"h", "t", "t", "p", "s", ":", "/", "/">>

\* No two slashes follow each other after the scheme.
NoDoubledSlash(url) ==
    \A i \in (Len(Scheme) + 1)..(Len(url) - 1) : ~(url[i] = "/" /\ url[i + 1] = "/")

HasSuffix(s, t) == Len(t) <= Len(s) /\ SubSeq(s, Len(s) - Len(t) + 1, Len(s)) = t
Contains(s, t) == \E i \in 1..(Len(s) - Len(t) + 1) : SubSeq(s, i, i + Len(t) - 1) = t

\* The restriction a list of options supplies for a field: the value of the
\* last option that names the field, nothing when none does.
Supplied(opts, field) ==
    LET at == {i \in DOMAIN opts : opts[i].field = field}
    IN  IF at = {} THEN <<>>
        ELSE opts[CHOOSE i \in at : \A j \in at : j <= i].value
SuppliedOptions(opts) ==
    [UserIP |-> Supplied(opts, "UserIP"),
     CountriesAllowed |-> Supplied(opts, "CountriesAllowed"),
     CountriesBlocked |-> Supplied(opts, "CountriesBlocked")]

\* The tokens the signer may return for the call that was signed.
SignerTokens ==
    {signCDNToken(call.signed.key, call.signed.path, call.signed.expiry,
                  call.signed.options, order) :
        order \in RangeOrders(cdnExtraParams(call.signed.options))}

UrlParams == Query(urlRawQuery(call.url))

\* C14: a SignedMP4URL that succeeds has signed the file path
\* /{videoID}/play_{resolution}.mp4 and returns the URL of that file on the
\* CDN host with a query string whose parameters are token and expires,
\* token_countries exactly when an allowed list was supplied and
\* token_countries_blocked exactly when a blocked list was supplied; their
\* values are the token, the expiry and the lists that were signed.
SignedMP4SignsFile ==
    Succeeded("SignedMP4URL") =>
        LET path == <<"/">> \o call.args.videoID \o <<"/", "p", "l", "a", "y", "_">> \o call.args.r \o <<".", "m", "p", "4">>
            allowed == Supplied(call.args.opts, "CountriesAllowed")
            blocked == Supplied(call.args.opts, "CountriesBlocked")
        IN  /\ call.signed.path = path
            /\ call.signed.token \in SignerTokens
            /\ CutBefore(call.url, "?") = Scheme \o CdnHost \o path
            /\ DOMAIN UrlParams =
                   {<<"t", "o", "k", "e", "n">>, <<"e", "x", "p", "i", "r", "e", "s">>}
                       \cup (IF allowed # <<>> THEN {kTokenCountries} ELSE {})
                       \cup (IF blocked # <<>> THEN {kTokenCountriesBlocked} ELSE {})
            /\ UrlParams[<<"t", "o", "k", "e", "n">>] = <<TokenText(call.signed.token)>>
            /\ UrlParams[<<"e", "x", "p", "i", "r", "e", "s">>] = <<FormatInt(call.signed.expiry)>>
            /\ allowed # <<>> =>
                   /\ UrlParams[kTokenCountries] = <<allowed>>
                   /\ call.signed.options.CountriesAllowed = allowed
            /\ blocked # <<>> =>
                   /\ UrlParams[kTokenCountriesBlocked] = <<blocked>>
                   /\ call.signed.options.CountriesBlocked = blocked

\* C14 witness: SignedMP4URL succeeded with an allowed and a blocked list.
SignedMP4WithBothLists ==
    /\ Succeeded("SignedMP4URL")
    /\ Supplied(call.args.opts, "CountriesAllowed") # <<>>
    /\ Supplied(call.args.opts, "CountriesBlocked") # <<>>

\* C15: a SignedEmbedURL that succeeds returns
\* https://iframe.mediadelivery.net/embed/{libraryID}/{videoID}?token=
\* {hexToken}&expires={expiry}, the token being the hex text of the hash of
\* EmbedTokenKey + videoID + decimal expiry; with the same key and expiry
\* every other video ID gives another token.
SignedEmbedTemplate ==
    Succeeded("SignedEmbedURL") =>
        LET expiry == call.signed.expiry
            hexToken == HexEncode(Sha256(config.EmbedTokenKey \o call.args.videoID
                                             \o FormatInt(expiry)))
        IN  /\ call.signed.token = hexToken
            /\ call.url = <<"h", "t", "t", "p", "s", ":", "/", "/", "i", "f", "r", "a", "m", "e", ".", "m", "e", "d", "i", "a", "d", "e", "l", "i", "v", "e", "r", "y", ".", "n", "e", "t", "/", "e", "m", "b", "e", "d", "/">> \o ClientLibraryID
                              \o <<"/">> \o call.args.videoID \o <<"?", "t", "o", "k", "e", "n", "=">>
                              \o TokenText(hexToken) \o <<"&", "e", "x", "p", "i", "r", "e", "s", "=">> \o FormatInt(expiry)
            /\ \A other \in PlayVideoIDs \ {call.args.videoID} :
                   embedToken(config.EmbedTokenKey, other, expiry) # call.signed.token

\* C15 witness: SignedEmbedURL succeeded, called after time had passed.
SignedEmbedReturned ==
    /\ Succeeded("SignedEmbedURL")
    /\ call.signed.expiry > call.args.ttl

\* C16 as stated: every signed URL generator takes a list of restriction
\* options, and a call that succeeds has signed the restrictions supplied.
AllSignedAcceptRestrictions ==
    call.op \in SignedOps =>
        /\ "opts" \in DOMAIN call.args
        /\ call.err = NilError =>
               call.signed.options = SuppliedOptions(call.args.opts)

\* C16: SignedHLSURL and SignedMP4URL take a list of restriction options,
\* and a call of either that succeeds has handed the signer exactly the
\* restrictions supplied, the last option winning for a field named twice,
\* and returns the signer's token for them; SignedEmbedURL takes only the
\* video ID and the ttl, and what it signs holds no restriction.
RestrictionsOnCDNSignatures ==
    /\ call.op \in {"SignedHLSURL", "SignedMP4URL"} =>
          /\ "opts" \in DOMAIN call.args
          /\ call.err = NilError =>
                 /\ call.signed.options = SuppliedOptions(call.args.opts)
                 /\ call.signed.token \in SignerTokens
    /\ call.op = "SignedEmbedURL" =>
          /\ DOMAIN call.args = {"videoID", "ttl"}
          /\ call.err = NilError =>
                 DOMAIN call.signed = {"kind", "key", "videoID", "expiry", "token"}

\* C16 witness: SignedHLSURL succeeded with the user IP supplied twice.
RestrictionSuppliedTwice ==
    /\ Succeeded("SignedHLSURL")
    /\ Len(call.args.opts) = 2
    /\ call.args.opts[1].field = call.args.opts[2].field
    /\ call.args.opts[1].value # call.args.opts[2].value

(***************************************************************************)
(* Claims about NewClient and the Config, checked under SpecConfig         *)
(***************************************************************************)

DefaultedFields == {InitFields[i] : i \in DOMAIN InitFields}

\* The fields of the shared Config the next step of caller g reads, and
\* the field it writes.
ReadsAt(g) ==
    CASE caller[g].pc = "start" -> {"APIKey", "LibraryID"}
      [] caller[g].pc = "test" -> {InitFields[caller[g].field]}
      [] caller[g].pc = "write" ->
            IF InitFields[caller[g].field] = "HTTPClient" THEN {"Timeout"} ELSE {}
      [] caller[g].pc = "copyHTTPClient" -> {"HTTPClient"}
      [] caller[g].pc = "copyRest" -> {"BaseURL", "LibraryID", "APIKey"}
      [] OTHER -> {}
WritesAt(g) ==
    IF caller[g].pc = "write" THEN {InitFields[caller[g].field]} ELSE {}

Built(g) == caller[g].pc = "done" /\ caller[g].err = NilError

\* C17: in every interleaving of the NewClient calls on the shared Config,
\* each defaulted field is assigned at most once; no caller is about to
\* read or write a field that another caller is about to write; and all
\* the clients built hold the same base URL and the same HTTP client.
DefaultingIsSafe ==
    /\ \A f \in DefaultedFields : written[f] <= 1
    /\ \A g, h \in Callers :
          g # h => WritesAt(g) \cap (ReadsAt(h) \cup WritesAt(h)) = {}
    /\ \A g, h \in Callers :
          Built(g) /\ Built(h) =>
              /\ caller[g].client.baseURL = caller[h].client.baseURL
              /\ caller[g].client.httpClient = caller[h].client.httpClient

\* C17 witness: both callers have built their client from a Config in
\* which every defaulted field was unset, and each field was assigned.
TwoClientsFromOneConfig ==
    /\ \A g \in Callers : Built(g)
    /\ \A f \in DefaultedFields : written[f] = 1

Matches(err, name) == ErrorsIs(err, Sentinel(name))

\* C20: a NewClient call that has returned made no network call; given nil
\* it returned ErrInvalidConfig; given a Config with an empty APIKey it
\* returned an error matching ErrInvalidConfig and ErrAPIKeyRequired,
\* whatever the LibraryID; given one with only the LibraryID empty, an
\* error matching ErrInvalidConfig and ErrLibraryIDRequired; it built no
\* client in these cases; and given a Config with both set it returned no
\* error and a client whose apiKey, libraryID and baseURL are the Config's.
NewClientValidates ==
    \A g \in Callers :
        caller[g].pc = "done" =>
            /\ transportCalls = 0
            /\ caller[g].nilCfg =>
                  Matches(caller[g].err, "ErrInvalidConfig")
            /\ ~caller[g].nilCfg /\ config.APIKey = "" =>
                  /\ Matches(caller[g].err, "ErrInvalidConfig")
                  /\ Matches(caller[g].err, "ErrAPIKeyRequired")
            /\ ~caller[g].nilCfg /\ config.APIKey # "" /\ config.LibraryID = <<>> =>
                  /\ Matches(caller[g].err, "ErrInvalidConfig")
                  /\ Matches(caller[g].err, "ErrLibraryIDRequired")
            /\ caller[g].err # NilError => caller[g].client = NilClient
            /\ ~caller[g].nilCfg /\ config.APIKey # "" /\ config.LibraryID # <<>> =>
                  /\ caller[g].err = NilError
                  /\ caller[g].client.apiKey = config.APIKey
                  /\ caller[g].client.libraryID = config.LibraryID
                  /\ caller[g].client.baseURL = config.BaseURL

\* C20 witness: NewClient returned for a Config with neither APIKey nor
\* LibraryID, with an error matching ErrAPIKeyRequired.
RefusedWithoutKeyAndLibrary ==
    \E g \in Callers :
        /\ caller[g].pc = "done"
        /\ ~caller[g].nilCfg
        /\ config.APIKey = ""
        /\ config.LibraryID = <<>>
        /\ Matches(caller[g].err, "ErrAPIKeyRequired")

(***************************************************************************)
(* Claims about the operations of a constructed client                     *)
(***************************************************************************)

\* C19: no call of CreateVideoObject or UploadVideo invokes the transport
\* more than once, whatever Config.MaxRetries is and however the transport
\* and the server answer.
TransportInvokedAtMostOnce == [][transportCalls' <= transportCalls + 1]_vars

\* C19 witness: UploadVideo was answered 503 on a client whose Config asks
\* for two retries, and the transport has been invoked once.
AnsweredUnavailableOnce ==
    /\ call.op = "UploadVideo"
    /\ call.outcome.kind = "response"
    /\ call.outcome.status = 503
    /\ config.MaxRetries = 2
    /\ transportCalls = 1

\* C18: no operation of a constructed client -- CreateVideoObject,
\* UploadVideo, a playback or a signed URL generator -- changes a field of
\* the Client or of its Config, the mutex of the Config included.
OperationsWriteNoField == [][UNCHANGED <<client, config, mu>>]_vars

\* C18 witness: the transport has been invoked twice and a signed URL
\* generator has then returned a URL.
OperationsHaveRun ==
    /\ transportCalls = 2
    /\ call.op \in SignedOps
    /\ call.err = NilError

(***************************************************************************)
(* Claims about Config.init, checked under SpecConfig                      *)
(***************************************************************************)

\* Caller g has returned from Config.init.
Defaulted(g) == caller[g].pc \in {"copyHTTPClient", "copyRest"} \/ Built(g)

ReturnedAPIError == call.op \in {"CreateVideoObject", "UploadVideo"} /\ call.err.kind = "APIError"

\* C22 as stated: the Message of an APIError is never longer than 200
\* bytes, and equals the body when the body has 200 bytes or fewer.
MessageWithinLimit ==
    ReturnedAPIError =>
        /\ Len(call.err.Message) <= MessageLimit
        /\ Len(call.outcome.body) <= MessageLimit =>
               call.err.Message = call.outcome.body

\* C22: the Message of an APIError equals the body the server sent when
\* that has 200 bytes or fewer; otherwise it is the first 200 bytes of the
\* body followed by "...", 203 bytes in all.
MessageIsClippedBody ==
    ReturnedAPIError =>
        LET body == call.outcome.body
            msg == call.err.Message
        IN  IF Len(body) <= MessageLimit
            THEN msg = body
            ELSE /\ Len(msg) = MessageLimit + 3
                 /\ SubSeq(msg, 1, MessageLimit) = SubSeq(body, 1, MessageLimit)
                 /\ SubSeq(msg, MessageLimit + 1, MessageLimit + 3) = <<".", ".", ".">>

\* C22 witness: a 400 answer with a body of 201 bytes became an APIError.
LongBodyAnswered ==
    /\ ReturnedAPIError
    /\ call.err.StatusCode = 400
    /\ Len(call.outcome.body) = MessageLimit + 1

(***************************************************************************)
(* Claims about the text of a token, checked under SpecToken               *)
(***************************************************************************)

\* The alphabet of a token: that of base64 with "-" for "+" and "_" for "/".
TokenAlphabet == [i \in 1..64 |-> CASE i = 63 -> "-" [] i = 64 -> "_" [] OTHER -> Base64Alphabet[i]]

\* The number a character of a token stands for.
TokenValue(c) == (CHOOSE i \in 1..64 : TokenAlphabet[i] = c) - 1

\* The bytes a token without padding stands for.
TokenBytes(token) ==
    [i \in 1..((3 * Len(token)) \div 4) |->
        LET g == (i - 1) \div 3
            r == (i - 1) % 3
            S(k) == TokenValue(token[4 * g + k + 1])
        IN  CASE r = 0 -> S(0) * 4 + (S(1) \div 16)
              [] r = 1 -> (S(1) % 16) * 16 + (S(2) \div 4)
              [] r = 2 -> (S(2) % 4) * 64 + S(3)]

\* C23: the token made of a digest contains no "+", "/", "=" and no
\* newline; it has one character of the URL-safe alphabet for every six
\* bits of the digest, standing at each position for the same six bits as
\* the character of the standard base64 text there, and it decodes to the
\* digest.
TokenIsUrlSafeBase64 ==
    enc.pc = "token" =>
        /\ \A i \in DOMAIN enc.token : enc.token[i] \notin {"+", "/", "=", "\n"}
        /\ \A i \in DOMAIN enc.token : \E j \in 1..64 : TokenAlphabet[j] = enc.token[i]
        /\ Len(enc.token) = (8 * Len(enc.raw) + 5) \div 6
        /\ \A i \in DOMAIN enc.token :
               TokenValue(enc.token[i]) = Sextet(enc.raw, (i - 1) \div 4, (i - 1) % 4)
        /\ TokenBytes(enc.token) = enc.raw

\* C23 witness: a token was made of a digest whose standard base64 text
\* has a "+", a "/" and the padding.
DigestWithPlusAndSlash ==
    /\ enc.pc = "token"
    /\ \E text \in {EncodeToString(enc.raw)} :
           /\ \E i \in DOMAIN text : text[i] = "+"
           /\ \E i \in DOMAIN text : text[i] = "/"
           /\ \E i \in DOMAIN text : text[i] = "="
    /\ \E i \in DOMAIN enc.token : enc.token[i] = "-"
    /\ \E i \in DOMAIN enc.token : enc.token[i] = "_"

\* The last operation handed a request to the transport.
Dispatched == call.op \in {"CreateVideoObject", "UploadVideo"} /\ call.sent >= 1

\* C24: a request that CreateVideoObject or UploadVideo handed to the
\* transport has exactly the headers AccessKey, User-Agent and Content-Type:
\* AccessKey is the API key of the Config, User-Agent is the non-empty
\* user agent of the Config, and Content-Type is application/json for
\* CreateVideoObject and application/octet-stream for UploadVideo.
DispatchedRequestHeaders ==
    Dispatched =>
        /\ DOMAIN call.req.header = {"AccessKey", "User-Agent", "Content-Type"}
        /\ call.req.header["AccessKey"] = config.APIKey
        /\ call.req.header["AccessKey"] = ClientAPIKey
        /\ call.req.header["User-Agent"] = config.UserAgent
        /\ call.req.header["User-Agent"] # ""
        /\ call.req.header["Content-Type"] =
               IF call.op = "CreateVideoObject" THEN "application/json"
               ELSE "application/octet-stream"

\* C24 witness: UploadVideo handed its request to the transport; it
\* carries the octet-stream content type.
UploadDispatched ==
    /\ call.op = "UploadVideo"
    /\ call.sent = 1
    /\ call.req.header["Content-Type"] = "application/octet-stream"
    /\ call.req.header["AccessKey"] = ClientAPIKey

(***************************************************************************)
(* Claims about the string signCDNToken hashes, checked under SpecSign     *)
(***************************************************************************)

\* The string whose digest the i-th token encodes.
Hashed(i) == sig[i].token.b64url.sha256

\* C25: the string hashed by a call of signCDNToken is its key, its path,
\* the decimal digits of its expiry, its UserIP when that is not empty,
\* then "token_countries=" with the allowed countries when they are not
\* empty and "token_countries_blocked=" with the blocked countries when
\* they are not empty, an "&" between the two when both are there; the
\* values are copied as they are, and nothing else is in the string.
HashedIsPlainConcatenation ==
    \A i \in {1, 2} :
        sig[i].done =>
            LET o == sig[i].opts
                allowed == IF o.CountriesAllowed # <<>>
                           THEN kTokenCountries \o <<"=">> \o o.CountriesAllowed
                           ELSE <<>>
                blocked == IF o.CountriesBlocked # <<>>
                           THEN kTokenCountriesBlocked \o <<"=">> \o o.CountriesBlocked
                           ELSE <<>>
                amp == IF allowed # <<>> /\ blocked # <<>> THEN <<"&">> ELSE <<>>
            IN  /\ Hashed(i) = sig[i].key \o sig[i].path \o FormatInt(sig[i].expiry)
                                   \o o.UserIP \o allowed \o amp \o blocked
                /\ StrLess(kTokenCountries, kTokenCountriesBlocked)

\* C25 witness: a call with a user IP, with allowed countries that hold
\* an "&" and an "=", and with blocked countries.
SignedWithEveryRestriction ==
    /\ sig[1].done
    /\ sig[1].opts.UserIP # <<>>
    /\ \E j \in DOMAIN sig[1].opts.CountriesAllowed : sig[1].opts.CountriesAllowed[j] = "&"
    /\ sig[1].opts.CountriesBlocked # <<>>
    /\ sig[1].expiry = 11

(***************************************************************************)
(* Claims about the Config after NewClient, checked under SpecConfig       *)
(***************************************************************************)

\* C26 as stated: once a caller has returned from validate and init, every
\* optional field of the Config is non-empty or non-zero.
AllOptionalFieldsSet ==
    \A g \in Callers :
        Defaulted(g) =>
            /\ config.UserAgent # "" /\ config.BaseURL # <<>>
            /\ config.MaxRetries # 0 /\ config.Timeout # 0
            /\ config.HTTPClient # NilHTTPClient
            /\ config.CDNHostname # <<>>
            /\ config.EmbedTokenKey # <<>>
            /\ config.CDNTokenKey # <<>>

\* C26: once a caller has returned from validate and init, the required
\* fields and the five fields init defaults are non-empty or at least 1;
\* and no step of NewClient changes CDNHostname, EmbedTokenKey or
\* CDNTokenKey, which stay empty when the caller left them empty.
ValidatedAndDefaultedFieldsSet ==
    /\ [](\A g \in Callers :
            Defaulted(g) =>
                /\ config.APIKey # "" /\ config.LibraryID # <<>>
                /\ config.UserAgent # "" /\ config.BaseURL # <<>>
                /\ config.MaxRetries >= 1 /\ config.Timeout >= 1
                /\ config.HTTPClient # NilHTTPClient)
    /\ [][/\ config'.CDNHostname = config.CDNHostname
          /\ config'.EmbedTokenKey = config.EmbedTokenKey
          /\ config'.CDNTokenKey = config.CDNTokenKey]_vars

\* C26 witness: a client was built from a Config without CDN hostname and
\* without embed key, whose BaseURL and MaxRetries init defaulted.
BuiltWithoutCDNHostname ==
    /\ \E g \in Callers : Built(g)
    /\ config.CDNHostname = <<>>
    /\ config.EmbedTokenKey = <<>>
    /\ config.BaseURL = DefaultBaseURL
    /\ config.MaxRetries = DefaultMaxRetries
    /\ written["BaseURL"] = 1

(***************************************************************************)
(* Claims about two builders on one request, checked under SpecQuery2      *)
(***************************************************************************)

\* The parameter set of builder b: the query captured when it was created,
\* with every key its setters wrote holding the last value written.
OwnParameters(b) ==
    LET base  == Query(hist[b].baseRaw)
        calls == hist[b].calls
    IN  [k \in DOMAIN base \cup WrittenKeys(calls) |->
            IF k \in WrittenKeys(calls) THEN <<LastWritten(calls, k)>> ELSE base[k]]

\* C27: right after builder b is applied the request's query string holds
\* exactly b's own parameter set, whatever it held before; so a key that
\* only another builder wrote and applied is no longer in it.
ApplyCommitsOwnSetOnly ==
    \A b \in Builders :
        AfterApply(b) =>
            /\ Query(reqRawQuery) = OwnParameters(b)
            /\ \A c \in Builders \ {b} :
                   \A k \in WrittenKeys(hist[c].calls) :
                       k \notin DOMAIN OwnParameters(b) =>
                           k \notin DOMAIN Query(reqRawQuery)

\* C27 witness: q1 and q2 were created on the same query string; q1 wrote
\* lang and was applied, so that the request held lang; q2 wrote flag and
\* was applied after it, and the request holds flag but not lang.
SecondApplyDropsFirst ==
    /\ AfterApply("q2")
    /\ hist["q1"].baseRaw = hist["q2"].baseRaw
    /\ hist["q1"].applyOut # <<>>
    /\ kLang \in DOMAIN Query(hist["q1"].applyOut[1])
    /\ WrittenKeys(hist["q2"].calls) = {kFlag}
    /\ kFlag \in DOMAIN Query(reqRawQuery)
    /\ kLang \notin DOMAIN Query(reqRawQuery)

\* The last operation was CreateVideoObject or UploadVideo.
OperationReturned == call.op \in {"CreateVideoObject", "UploadVideo"}

\* C28: CreateVideoObject and UploadVideo return a Response exactly when
\* they return no error; when the server answered with a non-success
\* status, doRequest returned the buffered Response of that status
\* together with the error, and the operation returned the error alone.
ResponseIffNoError ==
    OperationReturned =>
        /\ (call.resp # NilResponse) <=> (call.err = NilError)
        /\ call.err = NilError => call.resp.StatusCode = call.outcome.status
        /\ call.outcome.kind = "response" /\ call.err # NilError =>
               /\ doRequest(call.req, call.outcome).err = call.err
               /\ doRequest(call.req, call.outcome).resp # NilResponse
               /\ doRequest(call.req, call.outcome).resp.StatusCode = call.outcome.status
               /\ call.resp = NilResponse

\* C28 witness: the server answered 404 to a request that was sent, and
\* the operation returned ErrVideoNotFound and no Response.
NotFoundWithoutResponse ==
    /\ OperationReturned
    /\ call.sent = 1
    /\ call.outcome.kind = "response"
    /\ call.outcome.status = 404
    /\ call.err = Sentinel("ErrVideoNotFound")
    /\ call.resp = NilResponse

(***************************************************************************)
(* Claims about the URLs returned, checked under SpecURL                   *)
(***************************************************************************)

\* The text that follows "expires=" in a URL that holds it once, up to the
\* next "&".
ExpiresText(url) ==
    LET i == CHOOSE n \in 1..(Len(url) - 8) :
                 SubSeq(url, n, n + 7) = <<"e", "x", "p", "i", "r", "e", "s", "=">>
    IN  CutBefore(SubSeq(url, i + 8, Len(url)), "&")

\* C29: a step in which a signed URL generator returns a URL does not move
\* the clock; the expires value of the URL is the decimal text of the
\* clock at the call plus the ttl; and the string hashed into the token of
\* the URL holds that same text after the key and the video ID (signed
\* embed) or after the key and the signed path (signed HLS and MP4).
ExpiresIsHashedExpiry ==
    [][lastOp'.op \in SignedOps /\ call'.err = NilError =>
          \E text \in {ExpiresText(call'.url)}, s \in {call'.signed} :
              /\ now' = now
              /\ text = FormatInt(now + call'.args.ttl)
              /\ IF call'.op = "SignedEmbedURL"
                 THEN s.token.hex.sha256 =
                          config.EmbedTokenKey \o call'.args.videoID \o text
                 ELSE \E order \in RangeOrders(cdnExtraParams(s.options)) :
                          s.token.b64url.sha256 =
                              config.CDNTokenKey \o s.path \o text \o s.options.UserIP
                                  \o cdnParamStr(s.options, order)]_vars

\* C29 witness: a signed HLS URL was returned for a ttl of 9 seconds at
\* clock 1, with a user IP; it expires at 10.
SignedAtLaterClock ==
    /\ Succeeded("SignedHLSURL")
    /\ now = 1
    /\ call.args.ttl = 9
    /\ call.signed.options.UserIP # <<>>
    /\ ExpiresText(call.url) = <<"1", "0">>

\* The host of a URL: the text between the scheme and the next "/".
HostOf(url) == CutBefore(SubSeq(url, Len(Scheme) + 1, Len(url)), "/")

\* C30 as stated: a URL that a CDN-backed generator returns without error,
\* on a client whose CDNHostname is not empty, has a non-empty host
\* between "https://" and the next "/".
CdnUrlHasHost ==
    /\ call.op \in CDNOps
    /\ call.err = NilError
    /\ config.CDNHostname # <<>>
    => /\ SubSeq(call.url, 1, Len(Scheme)) = Scheme
       /\ HostOf(call.url) # <<>>

====
